---- MODULE Spec2Model ----
(***************************************************************************)
(* The session protocol of the VoiceAst backend (backend/main.py): the     *)
(* per-connection receive loop of websocket_endpoint, its handlers, the    *)
(* fast-path matcher, the fallback recognizer, process_intent and the      *)
(* speech synthesis calls, with the connection manager's active list.      *)
(* Spec runs one session through every handler, SpecLoop two sessions on   *)
(* the one event loop, SpecText the text functions (fast-path matcher,     *)
(* recognize_flexible, _parse_response) on texts of their own, and         *)
(* SpecMonitor the SystemMonitor thread (backend/system_monitor.py) with   *)
(* the manager's broadcast beside two sessions.                            *)
(*                                                                         *)
(* Text is a sequence of one-character strings.  The inputs are ASCII, so  *)
(* the Devanagari keywords of the keyword tables, which no ASCII text can  *)
(* contain, are left out of the tables.                                    *)
(***************************************************************************)
EXTENDS Integers, Sequences, FiniteSets, TLC

-----------------------------------------------------------------------------
(* str methods used by the code *)

UpperChars == <<"A", "B", "C", "D", "E", "F", "G", "H", "I", "J", "K", "L", "M", "N", "O", "P", "Q", "R", "S", "T", "U", "V", "W", "X", "Y", "Z">>

LowerChars == <<"a", "b", "c", "d", "e", "f", "g", "h", "i", "j", "k", "l", "m", "n", "o", "p", "q", "r", "s", "t", "u", "v", "w", "x", "y", "z">>

LowerChar(ch) ==
    IF \E i \in DOMAIN UpperChars : UpperChars[i] = ch
    THEN LowerChars[CHOOSE i \in DOMAIN UpperChars : UpperChars[i] = ch]
    ELSE ch

\* str.lower()
Lower(s) == [i \in 1..Len(s) |-> LowerChar(s[i])]

IsSpace(ch) == ch = " "

RECURSIVE LStrip(_)
LStrip(s) == IF s # <<>> /\ IsSpace(Head(s)) THEN LStrip(Tail(s)) ELSE s

RECURSIVE RStrip(_)
RStrip(s) ==
    IF s # <<>> /\ IsSpace(s[Len(s)]) THEN RStrip(SubSeq(s, 1, Len(s) - 1)) ELSE s

\* str.strip()
Strip(s) == RStrip(LStrip(s))

\* p occurs in s at position i (1-based)
MatchAt(s, p, i) ==
    /\ i >= 1
    /\ i + Len(p) - 1 <= Len(s)
    /\ \A j \in 1..Len(p) : s[i + j - 1] = p[j]

\* p in s
Contains(p, s) == \E i \in 1..(Len(s) - Len(p) + 1) : MatchAt(s, p, i)

\* s.find(p), 1-based; 0 when p is not in s
Find(s, p) ==
    IF Contains(p, s)
    THEN CHOOSE i \in 1..(Len(s) - Len(p) + 1) :
            /\ MatchAt(s, p, i)
            /\ \A k \in 1..(i - 1) : ~MatchAt(s, p, k)
    ELSE 0

\* s.startswith(p)
StartsWith(s, p) == MatchAt(s, p, 1)

\* s.replace(old, new): left to right, non-overlapping; old is not empty
RECURSIVE Replace(_, _, _)
Replace(s, old, new) ==
    IF s = <<>> THEN <<>>
    ELSE IF MatchAt(s, old, 1)
         THEN new \o Replace(SubSeq(s, Len(old) + 1, Len(s)), old, new)
         ELSE <<Head(s)>> \o Replace(Tail(s), old, new)

RECURSIVE SplitWords(_, _)
SplitWords(s, w) ==
    IF s = <<>> THEN (IF w = <<>> THEN <<>> ELSE <<w>>)
    ELSE IF IsSpace(Head(s))
         THEN (IF w = <<>> THEN <<>> ELSE <<w>>) \o SplitWords(Tail(s), <<>>)
         ELSE SplitWords(Tail(s), Append(w, Head(s)))

\* s.split()
Split(s) == SplitWords(s, <<>>)

RECURSIVE JoinWords(_)
JoinWords(ws) ==
    IF ws = <<>> THEN <<>>
    ELSE IF Len(ws) = 1 THEN ws[1]
         ELSE ws[1] \o <<" ">> \o JoinWords(Tail(ws))

\* the least index of a set of indices, 0 when there is none: where a loop
\* over a list in order stops first
First(indices) ==
    IF indices = {} THEN 0
    ELSE CHOOSE i \in indices : \A k \in indices : i <= k

-----------------------------------------------------------------------------
(* Values *)

\* a message text: a template of the code and the value formatted into it
Txt(tpl, arg) == [tpl |-> tpl, arg |-> arg]

NoText == Txt("", <<>>)

\* a parameters value: a dict (a set of key/value pairs) or something else
Params(items) == [mapping |-> TRUE, items |-> items]

NoParams == Params({})

NotADict == [mapping |-> FALSE, items |-> {}]

HasKey(p, k) == \E kv \in p.items : kv[1] = k

\* dict.get(k, d)
Get(p, k, d) == IF HasKey(p, k) THEN (CHOOSE kv \in p.items : kv[1] = k)[2] ELSE d

-----------------------------------------------------------------------------
(* The fast path of the voice_command handler *)

\* fast_patterns, in the insertion order of the dict
fast_patterns == <<
    [pattern |-> <<"s", "c", "r", "e", "e", "n", "s", "h", "o", "t">>, action |-> "take_screenshot", resp |-> "Screenshot captured!"],
    [pattern |-> <<"t", "a", "k", "e", " ", "a", " ", "s", "c", "r", "e", "e", "n", "s", "h", "o", "t">>, action |-> "take_screenshot", resp |-> "Screenshot captured!"],
    [pattern |-> <<"v", "o", "l", "u", "m", "e", " ", "u", "p">>, action |-> "volume_up", resp |-> "Volume up!"],
    [pattern |-> <<"l", "o", "u", "d", "e", "r">>, action |-> "volume_up", resp |-> "Louder!"],
    [pattern |-> <<"v", "o", "l", "u", "m", "e", " ", "d", "o", "w", "n">>, action |-> "volume_down", resp |-> "Volume down!"],
    [pattern |-> <<"q", "u", "i", "e", "t", "e", "r">>, action |-> "volume_down", resp |-> "Quieter!"],
    [pattern |-> <<"m", "u", "t", "e">>, action |-> "mute", resp |-> "Muted!"],
    [pattern |-> <<"t", "i", "m", "e">>, action |-> "time", resp |-> ""],
    [pattern |-> <<"w", "h", "a", "t", " ", "t", "i", "m", "e">>, action |-> "time", resp |-> ""],
    [pattern |-> <<"d", "a", "t", "e">>, action |-> "date", resp |-> ""],
    [pattern |-> <<"w", "h", "a", "t", "'", "s", " ", "t", "h", "e", " ", "d", "a", "t", "e">>, action |-> "date", resp |-> ""],
    [pattern |-> <<"b", "r", "i", "g", "h", "t", "n", "e", "s", "s", " ", "u", "p">>, action |-> "brightness_up", resp |-> "Brighter!"],
    [pattern |-> <<"b", "r", "i", "g", "h", "t", "n", "e", "s", "s", " ", "d", "o", "w", "n">>, action |-> "brightness_down", resp |-> "Dimmer!"] >>

\* the index of the first pattern that is a substring of the text, 0 if none
FastPatternHit(command_lower) ==
    First({i \in 1..Len(fast_patterns) :
            Contains(fast_patterns[i].pattern, command_lower)})

\* the value of the loop variable `action` after the for loop over
\* fast_patterns: the matched entry's action, or the last entry's when the
\* loop ran to its end
LoopAction(command_lower) ==
    LET i == FastPatternHit(command_lower)
    IN  IF i > 0 THEN fast_patterns[i].action
        ELSE fast_patterns[Len(fast_patterns)].action

\* the matcher with the prefixes tried before the table
FastMatchPrefixFirst(command_text) ==
    LET command_lower == Strip(Lower(command_text))
        i == FastPatternHit(command_lower)
    IN  IF StartsWith(command_lower, <<"o", "p", "e", "n", " ">>)
        THEN [hit |-> TRUE, action |-> "open_app",
              params |-> Params({<<"app_name", Strip(Replace(command_lower, <<"o", "p", "e", "n", " ">>, <<>>))>>}),
              resp |-> Txt("Opening {app_name}!", Strip(Replace(command_lower, <<"o", "p", "e", "n", " ">>, <<>>)))]
        ELSE IF i > 0
        THEN [hit |-> TRUE, action |-> fast_patterns[i].action, params |-> NoParams,
              resp |-> Txt(fast_patterns[i].resp, <<>>)]
        ELSE [hit |-> FALSE, action |-> "", params |-> NoParams, resp |-> NoText]

\* fast_match: [hit, action, params, resp]
FastMatch(command_text) ==
    LET command_lower == Strip(Lower(command_text))
        i == FastPatternHit(command_lower)
    IN  IF i > 0
        THEN [hit |-> TRUE, action |-> fast_patterns[i].action, params |-> NoParams,
              resp |-> Txt(fast_patterns[i].resp, <<>>)]
        ELSE IF StartsWith(command_lower, <<"o", "p", "e", "n", " ">>)
        THEN LET app_name == Strip(Replace(command_lower, <<"o", "p", "e", "n", " ">>, <<>>))
             IN  [hit |-> TRUE, action |-> "open_app",
                  params |-> Params({<<"app_name", app_name>>}),
                  resp |-> Txt("Opening {app_name}!", app_name)]
        ELSE IF StartsWith(command_lower, <<"c", "l", "o", "s", "e", " ">>)
        THEN LET app_name == Strip(Replace(command_lower, <<"c", "l", "o", "s", "e", " ">>, <<>>))
             IN  [hit |-> TRUE, action |-> "close_app",
                  params |-> Params({<<"app_name", app_name>>}),
                  resp |-> Txt("Closing {app_name}!", app_name)]
        ELSE [hit |-> FALSE, action |-> "", params |-> NoParams, resp |-> NoText]

-----------------------------------------------------------------------------
(* FlexibleIntentRecognizer *)

filler_words == << <<"p", "l", "e", "a", "s", "e">>, <<"c", "a", "n", " ", "y", "o", "u">>, <<"c", "o", "u", "l", "d", " ", "y", "o", "u">>, <<"w", "o", "u", "l", "d", " ", "y", "o", "u">>,
                   <<"i", " ", "w", "a", "n", "t", " ", "t", "o">>, <<"i", " ", "n", "e", "e", "d", " ", "t", "o">>, <<"h", "e", "y">>, <<"o", "k">> >>

\* action_keywords flattened in iteration order: action by action, keyword
\* by keyword
action_keywords == <<
    [action |-> "open", keyword |-> <<"o", "p", "e", "n">>],
    [action |-> "open", keyword |-> <<"l", "a", "u", "n", "c", "h">>],
    [action |-> "open", keyword |-> <<"s", "t", "a", "r", "t">>],
    [action |-> "open", keyword |-> <<"r", "u", "n">>],
    [action |-> "open", keyword |-> <<"e", "x", "e", "c", "u", "t", "e">>],
    [action |-> "close", keyword |-> <<"c", "l", "o", "s", "e">>],
    [action |-> "close", keyword |-> <<"q", "u", "i", "t">>],
    [action |-> "close", keyword |-> <<"e", "x", "i", "t">>],
    [action |-> "close", keyword |-> <<"t", "e", "r", "m", "i", "n", "a", "t", "e">>],
    [action |-> "close", keyword |-> <<"s", "t", "o", "p">>],
    [action |-> "take_screenshot", keyword |-> <<"s", "c", "r", "e", "e", "n", "s", "h", "o", "t">>],
    [action |-> "take_screenshot", keyword |-> <<"s", "c", "r", "e", "e", "n", " ", "s", "h", "o", "t">>],
    [action |-> "take_screenshot", keyword |-> <<"c", "a", "p", "t", "u", "r", "e", " ", "s", "c", "r", "e", "e", "n">>],
    [action |-> "take_screenshot", keyword |-> <<"t", "a", "k", "e", " ", "p", "i", "c", "t", "u", "r", "e">>],
    [action |-> "volume_up", keyword |-> <<"i", "n", "c", "r", "e", "a", "s", "e", " ", "v", "o", "l", "u", "m", "e">>],
    [action |-> "volume_up", keyword |-> <<"v", "o", "l", "u", "m", "e", " ", "u", "p">>],
    [action |-> "volume_up", keyword |-> <<"l", "o", "u", "d", "e", "r">>],
    [action |-> "volume_up", keyword |-> <<"r", "a", "i", "s", "e", " ", "v", "o", "l", "u", "m", "e">>],
    [action |-> "volume_down", keyword |-> <<"d", "e", "c", "r", "e", "a", "s", "e", " ", "v", "o", "l", "u", "m", "e">>],
    [action |-> "volume_down", keyword |-> <<"v", "o", "l", "u", "m", "e", " ", "d", "o", "w", "n">>],
    [action |-> "volume_down", keyword |-> <<"q", "u", "i", "e", "t", "e", "r">>],
    [action |-> "volume_down", keyword |-> <<"l", "o", "w", "e", "r", " ", "v", "o", "l", "u", "m", "e">>],
    [action |-> "mute", keyword |-> <<"m", "u", "t", "e">>],
    [action |-> "mute", keyword |-> <<"s", "i", "l", "e", "n", "c", "e">>],
    [action |-> "mute", keyword |-> <<"q", "u", "i", "e", "t">>],
    [action |-> "brightness_up", keyword |-> <<"i", "n", "c", "r", "e", "a", "s", "e", " ", "b", "r", "i", "g", "h", "t", "n", "e", "s", "s">>],
    [action |-> "brightness_up", keyword |-> <<"b", "r", "i", "g", "h", "t", "n", "e", "s", "s", " ", "u", "p">>],
    [action |-> "brightness_up", keyword |-> <<"b", "r", "i", "g", "h", "t", "e", "r">>],
    [action |-> "brightness_down", keyword |-> <<"d", "e", "c", "r", "e", "a", "s", "e", " ", "b", "r", "i", "g", "h", "t", "n", "e", "s", "s">>],
    [action |-> "brightness_down", keyword |-> <<"b", "r", "i", "g", "h", "t", "n", "e", "s", "s", " ", "d", "o", "w", "n">>],
    [action |-> "brightness_down", keyword |-> <<"d", "a", "r", "k", "e", "r">>],
    [action |-> "time", keyword |-> <<"t", "i", "m", "e">>],
    [action |-> "time", keyword |-> <<"w", "h", "a", "t", " ", "t", "i", "m", "e">>],
    [action |-> "time", keyword |-> <<"c", "u", "r", "r", "e", "n", "t", " ", "t", "i", "m", "e">>],
    [action |-> "date", keyword |-> <<"d", "a", "t", "e">>],
    [action |-> "date", keyword |-> <<"w", "h", "a", "t", " ", "d", "a", "t", "e">>],
    [action |-> "date", keyword |-> <<"t", "o", "d", "a", "y">>],
    [action |-> "search", keyword |-> <<"s", "e", "a", "r", "c", "h">>],
    [action |-> "search", keyword |-> <<"g", "o", "o", "g", "l", "e">>],
    [action |-> "search", keyword |-> <<"l", "o", "o", "k", " ", "u", "p">>],
    [action |-> "search", keyword |-> <<"f", "i", "n", "d">>] >>

\* entity_keywords flattened in iteration order
entity_keywords == <<
    [entity |-> <<"n", "o", "t", "e", "p", "a", "d">>, keyword |-> <<"n", "o", "t", "e", "p", "a", "d">>],
    [entity |-> <<"n", "o", "t", "e", "p", "a", "d">>, keyword |-> <<"t", "e", "x", "t", " ", "e", "d", "i", "t", "o", "r">>],
    [entity |-> <<"c", "h", "r", "o", "m", "e">>, keyword |-> <<"c", "h", "r", "o", "m", "e">>],
    [entity |-> <<"c", "h", "r", "o", "m", "e">>, keyword |-> <<"b", "r", "o", "w", "s", "e", "r">>],
    [entity |-> <<"c", "h", "r", "o", "m", "e">>, keyword |-> <<"g", "o", "o", "g", "l", "e", " ", "c", "h", "r", "o", "m", "e">>],
    [entity |-> <<"c", "a", "l", "c", "u", "l", "a", "t", "o", "r">>, keyword |-> <<"c", "a", "l", "c", "u", "l", "a", "t", "o", "r">>],
    [entity |-> <<"c", "a", "l", "c", "u", "l", "a", "t", "o", "r">>, keyword |-> <<"c", "a", "l", "c">>],
    [entity |-> <<"f", "i", "l", "e", "_", "e", "x", "p", "l", "o", "r", "e", "r">>, keyword |-> <<"e", "x", "p", "l", "o", "r", "e", "r">>],
    [entity |-> <<"f", "i", "l", "e", "_", "e", "x", "p", "l", "o", "r", "e", "r">>, keyword |-> <<"f", "i", "l", "e", " ", "e", "x", "p", "l", "o", "r", "e", "r">>],
    [entity |-> <<"f", "i", "l", "e", "_", "e", "x", "p", "l", "o", "r", "e", "r">>, keyword |-> <<"f", "i", "l", "e", "s">>] >>

RECURSIVE RemoveFillers(_, _)
RemoveFillers(text, k) ==
    IF k > Len(filler_words) THEN text
    ELSE RemoveFillers(Replace(text, filler_words[k], <<" ">>), k + 1)

clean_text(text) == JoinWords(Split(RemoveFillers(Strip(Lower(text)), 1)))

\* the recognizer matching a keyword against whole words only
recognize_flexible_words(text) ==
    LET words == Split(clean_text(text))
        k == First({i \in 1..Len(action_keywords) :
                \E j \in 1..Len(words) : words[j] = action_keywords[i].keyword})
    IN  IF k = 0
        THEN [intent |-> "unknown", confidence |-> 0, parameters |-> NoParams]
        ELSE [intent |-> action_keywords[k].action, confidence |-> 90,
              parameters |-> NoParams]

\* confidences are in hundredths: 0.9 is 90
recognize_flexible(text) ==
    LET text_clean == clean_text(text)
        k == First({i \in 1..Len(action_keywords) :
                Contains(action_keywords[i].keyword, text_clean)})
    IN  IF k = 0
        THEN [intent |-> "unknown", confidence |-> 0, parameters |-> NoParams]
        ELSE
        LET action == action_keywords[k].action
            keyword == action_keywords[k].keyword
            e == First({i \in 1..Len(entity_keywords) :
                    Contains(entity_keywords[i].keyword, text_clean)})
            words == Split(text_clean)
            idx == First({i \in 1..Len(words) :
                    Contains(keyword, words[i])})
            \* the first keyword of the search list that is in the text
            s == First({i \in 1..Len(action_keywords) : /\ action_keywords[i].action = "search"
                                       /\ Contains(action_keywords[i].keyword, text_clean)})
            kw == action_keywords[s].keyword
            query == Strip(SubSeq(text_clean, Find(text_clean, kw) + Len(kw),
                                  Len(text_clean)))
        IN  IF action \in {"open", "close"}
            THEN IF e > 0
                 THEN [intent |-> action \o "_app", confidence |-> 90,
                       parameters |-> Params({<<"app_name", entity_keywords[e].entity>>})]
                 ELSE IF Len(words) > 1 /\ idx > 0 /\ idx < Len(words)
                 THEN [intent |-> action \o "_app", confidence |-> 90,
                       parameters |-> Params({<<"app_name", words[idx + 1]>>})]
                 ELSE [intent |-> action, confidence |-> 90, parameters |-> NoParams]
            ELSE IF action = "search" /\ query # <<>>
            THEN [intent |-> "web_search", confidence |-> 90,
                  parameters |-> Params({<<"query", query>>})]
            ELSE [intent |-> action, confidence |-> 90, parameters |-> NoParams]
-----------------------------------------------------------------------------
(* process_intent and the response templates *)

\* the intents that have a branch of their own in process_intent
DispatchTable ==
    {"open_app", "close_app", "create_file", "delete_file", "list_files",
     "search_files", "volume_up", "volume_down", "mute", "brightness_up",
     "brightness_down", "screenshot", "take_screenshot", "shutdown", "restart",
     "time", "date", "system_info", "web_search", "type_text", "press_key",
     "open_camera", "camera", "close_camera", "greeting", "help"}

\* IntentRecognizer.get_response_template for the intents that reach the
\* final else of process_intent
get_response_template(intent) ==
    IF intent = "switch_tab" THEN "Switching tab"
    ELSE IF intent = "unknown"
    THEN "I'm sorry, I don't understand that command. Say 'help' for available commands."
    ELSE "Processing your request"

\* the except clause raising again: the exception leaves process_intent
IntentErrorPropagates(language) ==
    [success |-> FALSE, message |-> NoText, raised |-> TRUE]

\* the except branch of process_intent
IntentError(language) ==
    [success |-> FALSE,
     message |-> Txt(IF language = "en" THEN "Error executing command: {e}"
                     ELSE "hi: command error: {e}", <<>>)]

\* a call of the device controller that formats `arg` into its message:
\* ok is whether the executor succeeded; the Hindi text replaces the message
\* of a success only
Executor(ok, language, done, hindi, failed, arg) ==
    IF ok
    THEN [success |-> TRUE,
          message |-> Txt(IF language = "hi" /\ hindi # "" THEN hindi ELSE done, arg)]
    ELSE [success |-> FALSE, message |-> Txt(failed, arg)]

\* process_intent(intent, parameters, language); ok is the outcome of the
\* device controller call, when the branch makes one
process_intent(intent, parameters, language, ok) ==
    LET needs == CASE intent \in {"open_app", "close_app"} -> "app_name"
                   [] intent \in {"create_file", "delete_file"} -> "filename"
                   [] intent = "list_files" -> "directory"
                   [] intent \in {"search_files", "web_search"} -> "query"
                   [] intent = "type_text" -> "text"
                   [] intent = "press_key" -> "key"
                   [] OTHER -> ""
        arg == Get(parameters, needs, <<>>)
    IN  IF (needs # "" \/ intent \notin DispatchTable) /\ ~parameters.mapping
        THEN IntentError(language)   \* parameters.get / format(**parameters) raises
        ELSE
        CASE intent = "open_app" ->
               Executor(ok, language, "Opened {app_name}", "hi: {app_name} is opening",
                        "Failed to open {app_name}: {e}", arg)
          [] intent = "close_app" ->
               Executor(ok, language, "Closed {n} instance(s) of {app_name}",
                        "hi: {app_name} is closing", "{app_name} is not running", arg)
          [] intent = "create_file" ->
               Executor(ok, language, "Created file: {filename}",
                        "hi: file {filename} created", "Failed to create file: {e}", arg)
          [] intent = "delete_file" ->
               Executor(ok, language, "Deleted file: {filename}",
                        "hi: file {filename} deleted", "File not found: {filename}", arg)
          [] intent = "list_files" ->
               Executor(ok, language, "Found {n} files in {directory}", "",
                        "Directory not found: {directory}", arg)
          [] intent = "search_files" ->
               Executor(ok, language, "Found {n} files matching '{query}'", "",
                        "Directory not found: {directory}", arg)
          [] intent = "volume_up" ->
               Executor(ok, language, "Volume {direction}", "hi: volume is going up",
                        "Volume control not supported on this system", <<>>)
          [] intent = "volume_down" ->
               Executor(ok, language, "Volume {direction}", "hi: volume is going down",
                        "Volume control not supported on this system", <<>>)
          [] intent = "mute" ->
               Executor(ok, language, "Volume {direction}", "hi: muting",
                        "Volume control not supported on this system", <<>>)
          [] intent = "brightness_up" ->
               Executor(ok, language, "Brightness set to {n}%", "hi: brightness is going up",
                        "Failed to adjust brightness: {e}", <<>>)
          [] intent = "brightness_down" ->
               Executor(ok, language, "Brightness set to {n}%", "hi: brightness is going down",
                        "Failed to adjust brightness: {e}", <<>>)
          [] intent \in {"screenshot", "take_screenshot"} ->
               Executor(ok, language, "Screenshot saved to {filename}",
                        "hi: screenshot taken", "Failed to take screenshot: {e}", <<>>)
          [] intent = "shutdown" ->
               Executor(ok, language, "System will shutdown in 30 seconds", "",
                        "Dangerous commands are disabled. Enable in config.", <<>>)
          [] intent = "restart" ->
               Executor(ok, language, "System will restart in 30 seconds", "",
                        "Dangerous commands are disabled. Enable in config.", <<>>)
          [] intent = "time" ->
               [success |-> TRUE,
                message |-> Txt(IF language = "hi" THEN "hi: abhi samay {current_time} baje hai"
                                ELSE "The current time is {current_time}", <<>>)]
          [] intent = "date" ->
               [success |-> TRUE,
                message |-> Txt(IF language = "hi" THEN "hi: aaj ki tareekh {current_date} hai"
                                ELSE "Today is {current_date}", <<>>)]
          [] intent = "system_info" ->
               Executor(ok, language, "System information retrieved", "",
                        "Failed to get system info: {e}", <<>>)
          [] intent = "web_search" ->
               Executor(ok, language, "Searching for: {query}", "hi: {query} is being searched",
                        "Failed to search: {e}", arg)
          [] intent = "type_text" ->
               Executor(ok, language, "Typed: {text}", "", "Failed to type text: {e}", arg)
          [] intent = "press_key" ->
               Executor(ok, language, "Pressed key: {key}", "", "Failed to press key: {e}", arg)
          [] intent \in {"open_camera", "camera"} ->
               [success |-> TRUE,
                message |-> Txt("Opening camera. I'll describe what I see.", <<>>)]
          [] intent = "close_camera" ->
               [success |-> TRUE, message |-> Txt("Camera closed.", <<>>)]
          [] intent = "greeting" ->
               [success |-> TRUE,
                message |-> Txt(IF language = "hi" THEN "hi: HINDI_RESPONSES[greeting]"
                                ELSE "Hello! I'm Prime, your voice assistant. How can I help you today?",
                                <<>>)]
          [] intent = "help" ->
               [success |-> TRUE,
                message |-> Txt(IF language = "hi" THEN "hi: HINDI_RESPONSES[help]"
                                ELSE "I can help you control applications, manage files, adjust system settings, and answer questions.",
                                <<>>)]
          [] OTHER ->
               [success |-> FALSE, message |-> Txt(get_response_template(intent), <<>>)]

\* the intents whose branch of process_intent calls the device controller
CallsExecutor(intent) ==
    intent \in DispatchTable \ {"time", "date", "open_camera", "camera",
                                "close_camera", "greeting", "help"}
-----------------------------------------------------------------------------
(* AIBrain *)

\* _detect_language: "hi" when the text holds a code point of the Devanagari
\* block; the texts of this model are ASCII
DevanagariChars == {}

_detect_language(text) ==
    IF \E i \in 1..Len(text) : text[i] \in DevanagariChars THEN "hi" ELSE "en"

\* what ollama.chat can do: answer a JSON object with any response, action
\* and params, answer text that json.loads rejects, or raise.  action "" is
\* None.
LLMReply(kind, response, action, params) ==
    [kind |-> kind, response |-> response, action |-> action, params |-> params]

LLMReplies ==
    { LLMReply("json", Txt("llm: reply", <<>>), "", NoParams),
      LLMReply("json", Txt("llm: reply", <<>>), "time", NoParams),
      LLMReply("json", Txt("llm: reply", <<>>), "open_app",
               Params({<<"app_name", <<"n", "o", "t", "e", "p", "a", "d">>>>})),
      LLMReply("json", NoText, "volume_up", NotADict),
      LLMReply("json", NoText, "open_app", NotADict),
      LLMReply("json", Txt("llm: reply", <<>>), "dance", NoParams),
      LLMReply("text", Txt("llm: raw text", <<>>), "", NoParams),
      LLMReply("raises", NoText, "", NoParams) }

\* _parse_response: the decoded object's fields, or the raw reply as a
\* conversational response with no action
_parse_response(raw) ==
    IF raw.kind = "json"
    THEN [response |-> raw.response, action |-> raw.action, params |-> raw.params]
    ELSE [response |-> raw.response, action |-> "", params |-> NoParams]

\* the keyword groups of _fallback_response, in the order of the dict
fallback_patterns == <<
    [keywords |-> << <<"o", "p", "e", "n">>, <<"l", "a", "u", "n", "c", "h">>, <<"s", "t", "a", "r", "t">> >>, action |-> "open_app",
     response |-> "Opening that for you!"],
    [keywords |-> << <<"c", "l", "o", "s", "e">>, <<"q", "u", "i", "t">>, <<"e", "x", "i", "t">> >>, action |-> "close_app",
     response |-> "Closing that!"],
    [keywords |-> << <<"s", "c", "r", "e", "e", "n", "s", "h", "o", "t">>, <<"s", "c", "r", "e", "e", "n", " ", "s", "h", "o", "t">> >>, action |-> "take_screenshot",
     response |-> "Taking a screenshot!"],
    [keywords |-> << <<"v", "o", "l", "u", "m", "e", " ", "u", "p">>, <<"l", "o", "u", "d", "e", "r">> >>, action |-> "volume_up",
     response |-> "Turning up the volume!"],
    [keywords |-> << <<"v", "o", "l", "u", "m", "e", " ", "d", "o", "w", "n">>, <<"q", "u", "i", "e", "t", "e", "r">> >>, action |-> "volume_down",
     response |-> "Lowering the volume!"],
    [keywords |-> << <<"m", "u", "t", "e">> >>, action |-> "mute", response |-> "Muting!"],
    [keywords |-> << <<"t", "i", "m", "e">> >>, action |-> "time", response |-> "Let me check the time."],
    [keywords |-> << <<"d", "a", "t", "e">> >>, action |-> "date", response |-> "Let me check the date."],
    [keywords |-> << <<"s", "e", "a", "r", "c", "h">>, <<"g", "o", "o", "g", "l", "e">> >>, action |-> "web_search",
     response |-> "Searching for that!"] >>

fallback_apps == << <<"n", "o", "t", "e", "p", "a", "d">>, <<"c", "h", "r", "o", "m", "e">>, <<"c", "a", "l", "c", "u", "l", "a", "t", "o", "r">>, <<"e", "x", "p", "l", "o", "r", "e", "r">>, <<"p", "a", "i", "n", "t">>, <<"c", "m", "d">> >>

fallback_query_keywords == << <<"s", "e", "a", "r", "c", "h", " ", "f", "o", "r">>, <<"s", "e", "a", "r", "c", "h">>, <<"g", "o", "o", "g", "l", "e">> >>

\* _fallback_response: the pattern matching used when ollama.chat raises
_fallback_response(user_input) ==
    LET text == Strip(Lower(user_input))
        language == _detect_language(user_input)
        g == First({i \in 1..Len(fallback_patterns) : \E k \in DOMAIN fallback_patterns[i].keywords :
                                Contains(fallback_patterns[i].keywords[k], text)})
    IN  IF g = 0
        THEN [response |-> Txt("I'm here to help! Try saying 'open notepad' or 'what time is it'.", <<>>),
              action |-> "", params |-> NoParams, language |-> language]
        ELSE
        LET action == fallback_patterns[g].action
            a == First({i \in 1..Len(fallback_apps) :
                    Contains(fallback_apps[i], text)})
            words == Split(text)
            w == First({i \in 1..Len(words) : words[i] \in {<<"o", "p", "e", "n">>, <<"l", "a", "u", "n", "c", "h">>, <<"s", "t", "a", "r", "t">>, <<"c", "l", "o", "s", "e">>}})
            q == First({i \in 1..Len(fallback_query_keywords) :
                    Contains(fallback_query_keywords[i], text)})
            kw == fallback_query_keywords[q]
            query == Strip(SubSeq(text, Find(text, kw) + Len(kw), Len(text)))
            params ==
                IF action \in {"open_app", "close_app"}
                THEN IF a > 0 THEN Params({<<"app_name", fallback_apps[a]>>})
                     ELSE IF w > 0 /\ w < Len(words)
                          THEN Params({<<"app_name", words[w + 1]>>})
                          ELSE NoParams
                ELSE IF action = "web_search" /\ q > 0 /\ query # <<>>
                     THEN Params({<<"query", query>>})
                     ELSE NoParams
        IN  [response |-> Txt(fallback_patterns[g].response, <<>>), action |-> action,
             params |-> params, language |-> language]

\* ai_brain.think(user_input) when the interpreter is available: the parsed
\* reply with the detected language, or _fallback_response when the call
\* raises
think(user_input, reply) ==
    IF reply.kind = "raises" THEN _fallback_response(user_input)
    ELSE [response |-> _parse_response(reply).response,
          action |-> _parse_response(reply).action,
          params |-> _parse_response(reply).params,
          language |-> _detect_language(user_input)]

-----------------------------------------------------------------------------
(* The state *)

\* the number of inbound messages a session handles
MaxTurns == 2

\* one session: a session shares with the others only the active list and
\* the synthesizer
Conns == {1}

\* the utterances typed or spoken by the clients
Utterances ==
    { <<"V", "o", "l", "u", "m", "e", " ", "U", "p">>, <<"w", "h", "a", "t", " ", "t", "i", "m", "e">>, <<"o", "p", "e", "n", " ", "n", "o", "t", "e", "p", "a", "d">>, <<"h", "e", "l", "l", "o">>, <<"l", "a", "u", "n", "c", "h", " ", "c", "h", "r", "o", "m", "e">>, <<"t", "o", "d", "a", "y">> }

\* what the recognizer can transcribe
Transcripts == { <<"w", "h", "a", "t", " ", "t", "i", "m", "e">>, <<"h", "e", "l", "l", "o">>, <<"l", "a", "u", "n", "c", "h", " ", "c", "h", "r", "o", "m", "e">> }

Languages == {"en", "hi"}

\* the inbound messages: type, text, language, whether an image is attached,
\* and the audio payload ("" when the field is missing)
InMsg(type, text, language, image, payload) ==
    [type |-> type, text |-> text, language |-> language, image |-> image,
     payload |-> payload]

Inbound ==
    { InMsg(t, <<>>, "en", FALSE, "") : t \in {"ping", "greeting", "other"} }
    \cup { InMsg("voice_command", u, l, i, "") :
             u \in Utterances \cup {<<>>}, l \in Languages, i \in BOOLEAN }
    \cup { InMsg("audio_stream", <<>>, "en", FALSE, p) : p \in {"", "chunk"} }
    \cup { InMsg("voice_audio_file", <<>>, "en", FALSE, p) : p \in {"", "wav", "not base64"} }
    \cup { InMsg("audio_data", <<>>, "en", FALSE, p) : p \in {"", "bytes"} }
    \cup { InMsg("analyze_frame", <<>>, "en", i, "") : i \in BOOLEAN }

NoMsg == InMsg("", <<>>, "en", FALSE, "")

\* the outbound messages
Out(type) == [type |-> type]

ResultMsg(success, msg, audio, language) ==
    [type |-> "result", success |-> success, message |-> msg, audio |-> audio,
     language |-> language]

IntentMsg(intent, parameters, confidence) ==
    [type |-> "intent", intent |-> intent, parameters |-> parameters,
     confidence |-> confidence]

\* the locals of websocket_endpoint that a handler reads after it set them
NoResult == [success |-> TRUE, message |-> NoText]

InitLocals ==
    [text |-> <<>>, language |-> "en", action |-> "", params |-> NoParams,
     intent |-> "", parameters |-> NoParams, confidence |-> 0, response_text |-> NoText,
     action_result |-> NoResult, audio_base64 |-> "", is_final |-> FALSE,
     path |-> "", faults |-> {}]

\* no call of a text function under observation
NoCall == [fn |-> "", arg |-> <<>>, ret |-> <<>>]

\* the alert categories, in the order the monitor loop tests them
AlertTypes == <<"cpu", "ram", "battery">>

\* SystemMonitor.__init__: running False, no thread, last_alerts {}.  now is
\* the wall clock in seconds, samples the iterations of the loop begun, due
\* the categories whose alert the last check found due, and alerts the
\* alerts raised so far: category, time recorded, whether its broadcast was
\* scheduled.
InitMonitor ==
    [pc |-> "stopped", now |-> 0, samples |-> 0, last_alerts |-> [t \in {} |-> 0],
     alert_type |-> "", due |-> {}, alerts |-> <<>>]

\* no manager.broadcast coroutine: i is the position of the for loop in
\* active_connections, listed the connections on the list when the
\* coroutine was scheduled, sent the connections whose send_json returned
NoBroadcast == [pc |-> "idle", i |-> 0, listed |-> {}, sent |-> <<>>]

VARIABLES
    broadcast,           \* the manager.broadcast coroutine on the event loop
    call,                \* a call of one of the text functions: function, argument, result
    monitor,             \* the SystemMonitor object and its thread
    services,            \* which services initialised at import: ai, vision, tts, vosk
    active_connections,  \* manager.active_connections
    client,              \* the client's end of each socket: absent, open, gone
    pc,                  \* where each session task stands
    message,             \* the inbound message being handled
    locals,              \* the handler's locals
    outbox,              \* the messages sent since the last receive
    saved,               \* the db.save_command calls since the last receive
    tts_threads,         \* worker threads running tts.text_to_audio_base64
    turn,                \* the number of messages a session has received
    handling,            \* the messages whose handling began and has not ended
    failed,              \* a receive or send of the session found the client gone
    late_sends,          \* sends attempted after such a failure
    result_attempts      \* result sends attempted since the last receive

vars == << broadcast, call, monitor, services, active_connections, client, pc, message,
           locals, outbox, saved, tts_threads, turn, handling, failed, late_sends,
           result_attempts >>

Init ==
    /\ broadcast = NoBroadcast
    /\ call = NoCall
    /\ monitor = InitMonitor
    /\ services \in [ai : BOOLEAN, vision : BOOLEAN, tts : BOOLEAN, vosk : BOOLEAN]
    /\ active_connections = <<>>
    /\ client = [c \in Conns |-> "absent"]
    /\ pc = [c \in Conns |-> "absent"]
    /\ message = [c \in Conns |-> NoMsg]
    /\ locals = [c \in Conns |-> InitLocals]
    /\ outbox = [c \in Conns |-> <<>>]
    /\ saved = [c \in Conns |-> <<>>]
    /\ tts_threads = {}
    /\ turn = [c \in Conns |-> 0]
    /\ handling = [c \in Conns |-> {}]
    /\ failed = [c \in Conns |-> FALSE]
    /\ late_sends = [c \in Conns |-> 0]
    /\ result_attempts = [c \in Conns |-> 0]
-----------------------------------------------------------------------------
(* The connection manager and the steps shared by the handlers *)

RECURSIVE RemoveFirst(_, _)
\* list.remove(x): the list without its first x
RemoveFirst(list, x) ==
    IF list = <<>> THEN <<>>
    ELSE IF Head(list) = x THEN Tail(list)
         ELSE <<Head(list)>> \o RemoveFirst(Tail(list), x)

InList(list, x) == \E i \in DOMAIN list : list[i] = x

\* the session task moves to `to`; the handling of its message ends when it
\* comes back to the receive or leaves the loop
GoTo(c, to) ==
    /\ pc' = [pc EXCEPT ![c] = to]
    /\ handling' = [handling EXCEPT ![c] =
                       IF to \in {"recv", "closed"} THEN @ \ {turn[c]} ELSE @]

\* the except clauses leaving the connection on the list
SessionExceptLeaves(c) ==
    /\ active_connections' = active_connections
    /\ GoTo(c, "closed")

\* the except clauses of websocket_endpoint: manager.disconnect(websocket)
SessionExcept(c) ==
    /\ active_connections' = RemoveFirst(active_connections, c)
    /\ GoTo(c, "closed")

\* where an exception raised by a send goes: the try block of the
\* voice_audio_file handler catches it, every other handler lets it reach
\* the except clauses of websocket_endpoint
SendRaises(c, in_try) ==
    IF in_try
    THEN GoTo(c, "vaf_except") /\ UNCHANGED active_connections
    ELSE SessionExcept(c)

\* await manager.send_message(m, websocket), then go to `to`: the send
\* raises when the client is gone
Send(c, m, to, in_try) ==
    /\ late_sends' = [late_sends EXCEPT ![c] = IF failed[c] THEN @ + 1 ELSE @]
    /\ result_attempts' = [result_attempts EXCEPT ![c] =
                              IF m.type = "result" THEN @ + 1 ELSE @]
    /\ IF client[c] = "open"
       THEN /\ outbox' = [outbox EXCEPT ![c] = Append(@, m)]
            /\ GoTo(c, to)
            /\ UNCHANGED << failed, active_connections >>
       ELSE /\ failed' = [failed EXCEPT ![c] = TRUE]
            /\ SendRaises(c, in_try)
            /\ UNCHANGED outbox

\* db.save_command(command, intent, response, success)
Save(c, command, intent, response, success) ==
    saved' = [saved EXCEPT ![c] = Append(@, [command |-> command, intent |-> intent,
                                             response |-> response, success |-> success])]

\* what happens inside the try block of text_to_audio_base64: the file is
\* written and read back, or one of the steps raises
GenerationOutcomes == {"written", "error"}

\* text_to_audio_base64 with the engine check left out
text_to_audio_base64_unguarded(engine, generation) ==
    IF generation = "error" THEN "" ELSE "audio"

\* tts.text_to_audio_base64: "" without an engine, "" when the generation
\* raises (the except clause), the encoded file otherwise
text_to_audio_base64(engine, generation) ==
    IF ~engine THEN ""
    ELSE IF generation = "error" THEN ""
    ELSE "audio"

\* what a call of tts.text_to_audio_base64 can return
TtsResults == {text_to_audio_base64(services.tts, g) : g \in GenerationOutcomes}

\* asyncio.to_thread(tts.text_to_audio_base64, ...): the call starts on a
\* worker thread
TtsStart(c, from, to) ==
    /\ pc[c] = from
    /\ tts_threads' = tts_threads \cup {[conn |-> c, turn |-> turn[c]]}
    /\ GoTo(c, to)
    /\ UNCHANGED << broadcast, call, monitor, services, active_connections, client,
                    message, locals, outbox, saved, turn, failed, late_sends,
                    result_attempts >>

\* the awaited call returns its audio
TtsDone(c, from, to) ==
    /\ pc[c] = from
    /\ [conn |-> c, turn |-> turn[c]] \in tts_threads
    /\ \E audio \in TtsResults :
          locals' = [locals EXCEPT ![c].audio_base64 = audio,
                                   ![c].faults = @ \cup
                                      (IF ~services.tts THEN {"synthesizer unavailable"}
                                       ELSE IF audio = "" THEN {"synthesis error"} ELSE {})]
    /\ tts_threads' = tts_threads \ {[conn |-> c, turn |-> turn[c]]}
    /\ GoTo(c, to)
    /\ UNCHANGED << broadcast, call, monitor, services, active_connections, client,
                    message, outbox, saved, turn, failed, late_sends, result_attempts >>

\* the threads no task awaits any more
Abandoned(th) == ~(th.turn = turn[th.conn] /\ pc[th.conn] \in
                      {"vis_tts_wait", "fast_tts_wait", "slow_tts_wait", "as_tts_wait",
                       "vaf_tts_wait", "af_tts_wait"})

\* a thread whose caller timed out ends on its own
TtsThreadExit ==
    /\ \E th \in tts_threads : Abandoned(th) /\ tts_threads' = tts_threads \ {th}
    /\ UNCHANGED << broadcast, call, monitor, services, active_connections, client, pc,
                    message, locals, outbox, saved, turn, handling, failed, late_sends,
                    result_attempts >>

-----------------------------------------------------------------------------
(* websocket_endpoint: accept, the receive loop, ping and greeting *)

\* manager.connect, voice_recognition.create_recognizer
Connect(c) ==
    /\ pc[c] = "absent"
    /\ client' = [client EXCEPT ![c] = "open"]
    /\ active_connections' = Append(active_connections, c)
    /\ pc' = [pc EXCEPT ![c] = "connected"]
    /\ UNCHANGED << broadcast, call, monitor, services, message, locals, outbox, saved,
                    tts_threads, turn, handling, failed, late_sends, result_attempts >>

\* the client closes its socket
ClientDisconnect(c) ==
    /\ client[c] = "open"
    /\ client' = [client EXCEPT ![c] = "gone"]
    /\ UNCHANGED << broadcast, call, monitor, services, active_connections, pc, message,
                    locals, outbox, saved, tts_threads, turn, handling, failed,
                    late_sends, result_attempts >>

SendConnected(c) ==
    /\ pc[c] = "connected"
    /\ Send(c, Out("connected"), "recv", FALSE)
    /\ UNCHANGED << broadcast, call, monitor, services, client, message, locals, saved,
                    tts_threads, turn >>

\* websocket.receive_text() raises WebSocketDisconnect
ReceiveDisconnect(c) ==
    /\ pc[c] = "recv"
    /\ client[c] = "gone"
    /\ failed' = [failed EXCEPT ![c] = TRUE]
    /\ SessionExcept(c)
    /\ UNCHANGED << broadcast, call, monitor, services, client, message, locals, outbox,
                    saved, tts_threads, turn, late_sends, result_attempts >>

\* process_chunk(session_recognizer, audio_bytes): {} or a partial or final text
ChunkResults ==
    IF ~services.vosk THEN {[text |-> <<>>, is_final |-> FALSE]}
    ELSE {[text |-> <<>>, is_final |-> FALSE]}
         \cup {[text |-> t, is_final |-> f] : t \in Transcripts, f \in BOOLEAN}

\* recognize_from_audio(...).get("text", "").strip()
RecognizeResults == IF services.vosk THEN Transcripts \cup {<<>>} ELSE {<<>>}

greetings == { "Hello! How can I help?", "Hi! What can I do for you?",
               "Hey! I'm listening.", "Yes? How can I help?" }

\* where the dispatch on message_type goes and the locals it sets, up to the
\* handler's first await
Dispatch(c, m, to, loc) ==
    /\ message' = [message EXCEPT ![c] = m]
    /\ locals' = [locals EXCEPT ![c] = loc]
    /\ pc' = [pc EXCEPT ![c] = to]
    /\ handling' = [handling EXCEPT ![c] =
                       IF to = "recv" THEN @ ELSE @ \cup {turn[c] + 1}]

\* a receive that does not wait for the handler, as if each message were
\* handled by a task of its own
AtReceiveWhileHandling(c) == pc[c] \notin {"absent", "connected", "closed"}

\* the session task is at `await websocket.receive_text()`: the loop reads
\* the next message only when the handler of the last one has returned
AtReceive(c) == pc[c] = "recv"

\* data = await websocket.receive_text(), and the branch on message_type,
\* for the messages of `inbound`
ReceiveFrom(c, inbound) ==
    /\ AtReceive(c)
    /\ client[c] = "open"
    /\ turn[c] < MaxTurns
    /\ turn' = [turn EXCEPT ![c] = @ + 1]
    /\ outbox' = [outbox EXCEPT ![c] = <<>>]
    /\ saved' = [saved EXCEPT ![c] = <<>>]
    /\ result_attempts' = [result_attempts EXCEPT ![c] = 0]
    /\ \E m \in inbound :
         CASE m.type = "ping" -> Dispatch(c, m, "pong", InitLocals)
           [] m.type = "greeting" ->
                \E g \in greetings :
                   Dispatch(c, m, "greet_speak",
                            [InitLocals EXCEPT !.response_text = Txt(g, <<>>)])
           [] m.type = "voice_command" ->
                IF m.text # <<>>
                THEN Dispatch(c, m, "vc_processing",
                              [InitLocals EXCEPT !.text = m.text, !.language = m.language])
                ELSE Dispatch(c, m, "recv", InitLocals)
           [] m.type = "audio_stream" ->
                IF m.payload # "" /\ services.vosk
                THEN \E r \in ChunkResults :
                        IF r.text # <<>>
                        THEN Dispatch(c, m, "as_transcription",
                                      [InitLocals EXCEPT !.text = r.text,
                                                         !.is_final = r.is_final])
                        ELSE Dispatch(c, m, "recv", InitLocals)
                ELSE Dispatch(c, m, "recv",
                              [InitLocals EXCEPT !.faults =
                                  IF m.payload # "" THEN {"recognizer unavailable"} ELSE {}])
           [] m.type = "voice_audio_file" ->
                IF m.payload = "" THEN Dispatch(c, m, "recv", InitLocals)
                ELSE IF m.payload = "not base64"
                     THEN Dispatch(c, m, "vaf_except", InitLocals)
                     ELSE Dispatch(c, m, "vaf_recognize", InitLocals)
           [] m.type = "audio_data" ->
                IF m.payload # ""
                THEN \E t \in RecognizeResults :
                        IF t # <<>>
                        THEN Dispatch(c, m, "ad_transcription", [InitLocals EXCEPT !.text = t])
                        ELSE Dispatch(c, m, "recv", InitLocals)
                ELSE Dispatch(c, m, "recv", InitLocals)
           [] m.type = "analyze_frame" ->
                IF m.image THEN Dispatch(c, m, "af_analyze", InitLocals)
                ELSE Dispatch(c, m, "recv", InitLocals)
           [] OTHER -> Dispatch(c, m, "recv", InitLocals)
    /\ UNCHANGED << broadcast, call, monitor, services, active_connections, client,
                    tts_threads, failed, late_sends >>

Receive(c) == ReceiveFrom(c, Inbound)

Pong(c) ==
    /\ pc[c] = "pong"
    /\ Send(c, Out("pong"), "recv", FALSE)
    /\ UNCHANGED << broadcast, call, monitor, services, client, message, locals, saved,
                    tts_threads, turn >>

\* audio_base64 = tts.speak(greeting_text, voice_type="male"): the call is
\* made by the session task itself, with no worker thread and no await, so
\* the event loop runs nothing else until it returns
GreetingSpeak(c) ==
    /\ pc[c] = "greet_speak"
    /\ \E audio \in TtsResults :
          locals' = [locals EXCEPT ![c].audio_base64 = audio,
                                   ![c].faults = IF services.tts THEN {}
                                                 ELSE {"synthesizer unavailable"}]
    /\ GoTo(c, "greet_result")
    /\ UNCHANGED << broadcast, call, monitor, services, active_connections, client,
                    message, outbox, saved, tts_threads, turn, failed, late_sends,
                    result_attempts >>

GreetingResult(c) ==
    /\ pc[c] = "greet_result"
    /\ Send(c, [type |-> "result", success |-> TRUE, message |-> locals[c].response_text,
                audio |-> locals[c].audio_base64, is_greeting |-> TRUE], "recv", FALSE)
    /\ UNCHANGED << broadcast, call, monitor, services, client, message, locals, saved,
                    tts_threads, turn >>
-----------------------------------------------------------------------------
(* The voice_command handler *)

\* the outcomes of the device controller call process_intent makes, if any
ExecOutcomes(intent) == IF CallsExecutor(intent) THEN BOOLEAN ELSE {TRUE}

ActionFault(result) == IF result.success THEN {} ELSE {"action failed"}

\* the acknowledgment, then the test for the vision branch
VcProcessing(c) ==
    /\ pc[c] = "vc_processing"
    /\ Send(c, [type |-> "processing", command |-> locals[c].text],
            IF message[c].image /\ services.vision THEN "vc_vision" ELSE "vc_route", FALSE)
    /\ UNCHANGED << broadcast, call, monitor, services, client, message, locals, saved,
                    tts_threads, turn >>

\* vision.analyze_image: a description, or success False when the call raises
VcVision(c) ==
    /\ pc[c] = "vc_vision"
    /\ \/ /\ locals' = [locals EXCEPT ![c].response_text = Txt("vision: description", <<>>),
                                      ![c].path = "vision"]
          /\ GoTo(c, "vis_tts")
       \/ /\ locals' = [locals EXCEPT ![c].faults = @ \cup {"vision failed"}]
          /\ GoTo(c, "vc_route")
    /\ UNCHANGED << broadcast, call, monitor, services, active_connections, client,
                    message, outbox, saved, tts_threads, turn, failed, late_sends,
                    result_attempts >>

VisTtsStart(c) == TtsStart(c, "vis_tts", "vis_tts_wait")

VisTtsDone(c) == TtsDone(c, "vis_tts_wait", "vis_result")

\* the result of the vision branch, save_command, continue
VisResult(c) ==
    /\ pc[c] = "vis_result"
    /\ Send(c, ResultMsg(TRUE, locals[c].response_text, locals[c].audio_base64,
                         locals[c].language), "recv", FALSE)
    /\ IF client[c] = "open"
       THEN Save(c, locals[c].text, "vision_qa", locals[c].response_text, TRUE)
       ELSE UNCHANGED saved
    /\ UNCHANGED << broadcast, call, monitor, services, client, message, locals,
                    tts_threads, turn >>

\* the fast path test; on a hit process_intent runs, on a miss the turn goes
\* to the interpreter or to the fallback recognizer
VcRoute(c) ==
    /\ pc[c] = "vc_route"
    /\ LET loc == locals[c]
           fast_match == FastMatch(loc.text)
           leaked == LoopAction(Strip(Lower(loc.text)))
       IN  IF fast_match.hit
           THEN \E ok \in ExecOutcomes(fast_match.action) :
                  LET action_result == process_intent(fast_match.action, fast_match.params,
                                                      loc.language, ok)
                      response_text == IF fast_match.resp = NoText
                                       THEN action_result.message ELSE fast_match.resp
                  IN  /\ locals' = [locals EXCEPT ![c] =
                                      [loc EXCEPT !.action = fast_match.action,
                                                  !.params = fast_match.params,
                                                  !.action_result = action_result,
                                                  !.response_text = response_text,
                                                  !.path = "fast",
                                                  !.faults = @ \cup ActionFault(action_result)]]
                      /\ GoTo(c, IF response_text # NoText THEN "fast_tts" ELSE "fast_result")
           ELSE IF services.ai
           THEN /\ locals' = [locals EXCEPT ![c].action = leaked, ![c].path = "ai"]
                /\ GoTo(c, "ai_think")
           ELSE LET intent_result == recognize_flexible(loc.text)
                IN  /\ locals' = [locals EXCEPT ![c] =
                                    [loc EXCEPT !.action = leaked,
                                                !.intent = intent_result.intent,
                                                !.parameters = intent_result.parameters,
                                                !.confidence = intent_result.confidence,
                                                !.path = "fallback",
                                                !.faults = @ \cup {"interpreter unavailable"}]]
                    /\ GoTo(c, "fb_intent")
    /\ UNCHANGED << broadcast, call, monitor, services, active_connections, client,
                    message, outbox, saved, tts_threads, turn, failed, late_sends,
                    result_attempts >>

FastTtsStart(c) == TtsStart(c, "fast_tts", "fast_tts_wait")

FastTtsDone(c) == TtsDone(c, "fast_tts_wait", "fast_result")

\* the TimeoutError left uncaught: it reaches the except clauses of
\* websocket_endpoint
FastTtsTimeoutUncaught(c) ==
    /\ pc[c] = "fast_tts_wait"
    /\ services.tts
    /\ locals' = [locals EXCEPT ![c].faults = @ \cup {"synthesis timeout"}]
    /\ SessionExcept(c)
    /\ UNCHANGED << broadcast, call, monitor, services, client, message, outbox, saved,
                    tts_threads, turn, failed, late_sends, result_attempts >>

\* asyncio.wait_for(..., timeout=3.0) raises TimeoutError: audio_base64 keeps
\* its "" and the handler goes on; the worker thread of asyncio.to_thread is
\* not stopped.  Without an engine the call returns at once.
FastTtsTimeout(c) ==
    /\ pc[c] = "fast_tts_wait"
    /\ services.tts
    /\ locals' = [locals EXCEPT ![c].audio_base64 = "",
                                ![c].faults = @ \cup {"synthesis timeout"}]
    /\ GoTo(c, "fast_result")
    /\ UNCHANGED << broadcast, call, monitor, services, active_connections, client,
                    message, outbox, saved, tts_threads, turn, failed, late_sends,
                    result_attempts >>

\* the result sent with success=True whatever the action returned, as the
\* save_command call of the fast path does
FastResultSuccessTrue(c) ==
    /\ pc[c] = "fast_result"
    /\ Send(c, ResultMsg(TRUE, locals[c].response_text, locals[c].audio_base64,
                         locals[c].language), "recv", FALSE)
    /\ IF client[c] = "open"
       THEN Save(c, locals[c].text, locals[c].action, locals[c].response_text, TRUE)
       ELSE UNCHANGED saved
    /\ UNCHANGED << broadcast, call, monitor, services, client, message, locals,
                    tts_threads, turn >>

\* the result of the fast path, save_command(success=True), continue
FastResult(c) ==
    /\ pc[c] = "fast_result"
    /\ Send(c, ResultMsg(locals[c].action_result.success, locals[c].response_text,
                         locals[c].audio_base64, locals[c].language), "recv", FALSE)
    /\ IF client[c] = "open"
       THEN Save(c, locals[c].text, locals[c].action, locals[c].response_text, TRUE)
       ELSE UNCHANGED saved
    /\ UNCHANGED << broadcast, call, monitor, services, client, message, locals,
                    tts_threads, turn >>

\* the locals set from ai_result
AfterThink(loc, ai_result, reply) ==
    [loc EXCEPT !.response_text = ai_result.response,
                !.action = ai_result.action,
                !.params = ai_result.params,
                !.language = ai_result.language,
                !.faults = @ \cup (IF reply.kind = "text" THEN {"malformed interpreter output"}
                                   ELSE IF reply.kind = "raises" THEN {"interpreter error"}
                                   ELSE {})]

\* ai_result = await ai_brain.think(command_text)
VcThink(c) ==
    /\ pc[c] = "ai_think"
    /\ \E reply \in LLMReplies :
          locals' = [locals EXCEPT ![c] = AfterThink(@, think(locals[c].text, reply), reply)]
    /\ GoTo(c, "ai_intent")
    /\ UNCHANGED << broadcast, call, monitor, services, active_connections, client,
                    message, outbox, saved, tts_threads, turn, failed, late_sends,
                    result_attempts >>

\* the intent message of the interpreter branch
AiIntentMsg(loc) ==
    IntentMsg(IF loc.action # "" THEN loc.action ELSE "conversation", loc.params,
              IF loc.action # "" THEN 95 ELSE 80)

\* the interpreter's reply kept for every action, time and date included
AiExecuteKeepsReply(loc, ok) ==
    IF loc.action = ""
    THEN [loc EXCEPT !.action_result = [success |-> TRUE, message |-> loc.response_text]]
    ELSE LET action_result == process_intent(loc.action, loc.params, loc.language, ok)
         IN  [loc EXCEPT !.action_result = action_result,
                         !.faults = @ \cup ActionFault(action_result)]

\* the locals after `if action:` ran process_intent in the voice_command
\* handler: the interpreter's reply stands unless the action is time or date
\* or the action's message is empty
AiExecute(loc, ok) ==
    IF loc.action = ""
    THEN [loc EXCEPT !.action_result = [success |-> TRUE, message |-> loc.response_text]]
    ELSE LET action_result == process_intent(loc.action, loc.params, loc.language, ok)
         IN  [loc EXCEPT !.action_result = action_result,
                         !.response_text =
                             IF action_result.message # NoText
                                /\ loc.action # "time" /\ loc.action # "date"
                             THEN @ ELSE action_result.message,
                         !.faults = @ \cup ActionFault(action_result)]

AfterExecute(loc, tts, result) == IF loc.response_text # NoText THEN tts ELSE result

\* the intent message of the interpreter branch, then process_intent
VcAiIntent(c) ==
    /\ pc[c] = "ai_intent"
    /\ \E ok \in ExecOutcomes(locals[c].action) :
         LET loc == AiExecute(locals[c], ok)
         IN  /\ Send(c, AiIntentMsg(locals[c]), AfterExecute(loc, "slow_tts", "slow_result"),
                     FALSE)
             /\ locals' = IF client[c] = "open" THEN [locals EXCEPT ![c] = loc] ELSE locals
    /\ UNCHANGED << broadcast, call, monitor, services, client, message, saved,
                    tts_threads, turn >>

\* the locals after the fallback branch ran process_intent
FallbackExecute(loc, language, ok) ==
    LET action_result == process_intent(loc.intent, loc.parameters, language, ok)
    IN  [loc EXCEPT !.action_result = action_result,
                    !.response_text = action_result.message,
                    !.faults = @ \cup ActionFault(action_result)]

\* the intent message of the fallback branch, then process_intent
VcFallbackIntent(c) ==
    /\ pc[c] = "fb_intent"
    /\ \E ok \in ExecOutcomes(locals[c].intent) :
         LET loc == FallbackExecute(locals[c], locals[c].language, ok)
         IN  /\ Send(c, IntentMsg(locals[c].intent, locals[c].parameters,
                                  locals[c].confidence),
                     AfterExecute(loc, "slow_tts", "slow_result"), FALSE)
             /\ locals' = IF client[c] = "open" THEN [locals EXCEPT ![c] = loc] ELSE locals
    /\ UNCHANGED << broadcast, call, monitor, services, client, message, saved,
                    tts_threads, turn >>

SlowTtsStart(c) == TtsStart(c, "slow_tts", "slow_tts_wait")

SlowTtsDone(c) == TtsDone(c, "slow_tts_wait", "slow_result")

\* intent=action or "conversation"
SavedIntent(loc) == IF loc.action # "" THEN loc.action ELSE "conversation"

\* the result of the slow path and save_command
SlowResult(c) ==
    /\ pc[c] = "slow_result"
    /\ Send(c, ResultMsg(locals[c].action_result.success, locals[c].response_text,
                         locals[c].audio_base64, locals[c].language), "slow_ready", FALSE)
    /\ IF client[c] = "open"
       THEN Save(c, locals[c].text, SavedIntent(locals[c]), locals[c].response_text,
                 locals[c].action_result.success)
       ELSE UNCHANGED saved
    /\ UNCHANGED << broadcast, call, monitor, services, client, message, locals,
                    tts_threads, turn >>

\* the slow path ending like the fast path, with no ready message
SlowReadySkipped(c) ==
    /\ pc[c] = "slow_ready"
    /\ GoTo(c, "recv")
    /\ UNCHANGED << broadcast, call, monitor, services, active_connections, client,
                    message, locals, outbox, saved, tts_threads, turn, failed,
                    late_sends, result_attempts >>

SlowReady(c) ==
    /\ pc[c] = "slow_ready"
    /\ Send(c, Out("ready"), "recv", FALSE)
    /\ UNCHANGED << broadcast, call, monitor, services, client, message, locals, saved,
                    tts_threads, turn >>
-----------------------------------------------------------------------------
(* The audio_stream handler *)

\* the transcription update going on to the recognizer for partial
\* transcripts too
AsTranscriptionResolvesPartial(c) ==
    /\ pc[c] = "as_transcription"
    /\ LET intent_result == recognize_flexible(locals[c].text)
       IN  /\ Send(c, [type |-> "transcription", text |-> locals[c].text,
                       isFinal |-> locals[c].is_final], "as_intent", FALSE)
           /\ locals' = IF client[c] = "open"
                        THEN [locals EXCEPT ![c].intent = intent_result.intent,
                                            ![c].parameters = intent_result.parameters,
                                            ![c].confidence = intent_result.confidence,
                                            ![c].path = "fallback"]
                        ELSE locals
    /\ UNCHANGED << broadcast, call, monitor, services, client, message, saved,
                    tts_threads, turn >>

\* the transcription update; a final transcript goes on to the recognizer
AsTranscription(c) ==
    /\ pc[c] = "as_transcription"
    /\ LET intent_result == recognize_flexible(locals[c].text)
       IN  /\ Send(c, [type |-> "transcription", text |-> locals[c].text,
                       isFinal |-> locals[c].is_final],
                   IF locals[c].is_final THEN "as_intent" ELSE "recv", FALSE)
           /\ locals' = IF client[c] = "open" /\ locals[c].is_final
                        THEN [locals EXCEPT ![c].intent = intent_result.intent,
                                            ![c].parameters = intent_result.parameters,
                                            ![c].confidence = intent_result.confidence,
                                            ![c].path = "fallback"]
                        ELSE locals
    /\ UNCHANGED << broadcast, call, monitor, services, client, message, saved,
                    tts_threads, turn >>

\* the intent message, then process_intent(intent, parameters, "en")
AsIntent(c) ==
    /\ pc[c] = "as_intent"
    /\ \E ok \in ExecOutcomes(locals[c].intent) :
         LET loc == FallbackExecute(locals[c], "en", ok)
         IN  /\ Send(c, IntentMsg(locals[c].intent, locals[c].parameters,
                                  locals[c].confidence),
                     AfterExecute(loc, "as_tts", "as_result"), FALSE)
             /\ locals' = IF client[c] = "open" THEN [locals EXCEPT ![c] = loc] ELSE locals
    /\ UNCHANGED << broadcast, call, monitor, services, client, message, saved,
                    tts_threads, turn >>

AsTtsStart(c) == TtsStart(c, "as_tts", "as_tts_wait")

AsTtsDone(c) == TtsDone(c, "as_tts_wait", "as_result")

\* the ready message sent where the result belongs
AsResultReadyFirst(c) ==
    /\ pc[c] = "as_result"
    /\ Send(c, Out("ready"), "as_ready", FALSE)
    /\ UNCHANGED << broadcast, call, monitor, services, client, message, locals, saved,
                    tts_threads, turn >>

AsResult(c) ==
    /\ pc[c] = "as_result"
    /\ Send(c, ResultMsg(locals[c].action_result.success, locals[c].response_text,
                         locals[c].audio_base64, "en"), "as_ready", FALSE)
    /\ IF client[c] = "open"
       THEN Save(c, locals[c].text, locals[c].intent, locals[c].response_text,
                 locals[c].action_result.success)
       ELSE UNCHANGED saved
    /\ UNCHANGED << broadcast, call, monitor, services, client, message, locals,
                    tts_threads, turn >>

AsReady(c) ==
    /\ pc[c] = "as_ready"
    /\ Send(c, Out("ready"), "recv", FALSE)
    /\ UNCHANGED << broadcast, call, monitor, services, client, message, locals, saved,
                    tts_threads, turn >>

-----------------------------------------------------------------------------
(* The voice_audio_file handler: everything runs inside its try block *)

\* asyncio.to_thread(voice_recognition.recognize_from_audio, pcm_data)
VafRecognize(c) ==
    /\ pc[c] = "vaf_recognize"
    /\ \E t \in RecognizeResults :
         /\ locals' = [locals EXCEPT ![c].text = t,
                                     ![c].faults = IF services.vosk THEN @
                                                   ELSE @ \cup {"recognizer unavailable"}]
         /\ GoTo(c, IF t # <<>> THEN "vaf_transcription" ELSE "vaf_notext")
    /\ UNCHANGED << broadcast, call, monitor, services, active_connections, client,
                    message, outbox, saved, tts_threads, turn, failed, late_sends,
                    result_attempts >>

\* no speech detected
VafNoText(c) ==
    /\ pc[c] = "vaf_notext"
    /\ Send(c, [type |-> "result", success |-> FALSE,
                message |-> Txt("I didn't catch that. Please try again.", <<>>),
                audio |-> ""], "recv", TRUE)
    /\ UNCHANGED << broadcast, call, monitor, services, client, message, locals, saved,
                    tts_threads, turn >>

VafTranscription(c) ==
    /\ pc[c] = "vaf_transcription"
    /\ LET intent_result == recognize_flexible(locals[c].text)
       IN  /\ Send(c, [type |-> "transcription", text |-> locals[c].text, isFinal |-> TRUE],
                   IF services.ai THEN "vaf_think" ELSE "vaf_fb_intent", TRUE)
           /\ locals' = IF client[c] # "open" THEN locals
                        ELSE IF services.ai THEN [locals EXCEPT ![c].path = "ai"]
                        ELSE [locals EXCEPT ![c].action = intent_result.intent,
                                            ![c].params = intent_result.parameters,
                                            ![c].confidence = intent_result.confidence,
                                            ![c].path = "fallback",
                                            ![c].faults = @ \cup {"interpreter unavailable"}]
    /\ UNCHANGED << broadcast, call, monitor, services, client, message, saved,
                    tts_threads, turn >>

\* ai_result = await ai_brain.think(text)
VafThink(c) ==
    /\ pc[c] = "vaf_think"
    /\ \E reply \in LLMReplies :
          locals' = [locals EXCEPT ![c] = AfterThink(@, think(locals[c].text, reply), reply)]
    /\ GoTo(c, "vaf_ai_intent")
    /\ UNCHANGED << broadcast, call, monitor, services, active_connections, client,
                    message, outbox, saved, tts_threads, turn, failed, late_sends,
                    result_attempts >>

\* the locals after `if action:` ran process_intent in the voice_audio_file
\* handler: the action's message replaces the reply for time and date only
VafAiExecute(loc, ok) ==
    IF loc.action = ""
    THEN [loc EXCEPT !.action_result = [success |-> TRUE, message |-> loc.response_text]]
    ELSE LET action_result == process_intent(loc.action, loc.params, loc.language, ok)
         IN  [loc EXCEPT !.action_result = action_result,
                         !.response_text = IF loc.action \in {"time", "date"}
                                           THEN action_result.message ELSE @,
                         !.faults = @ \cup ActionFault(action_result)]

VafAiIntent(c) ==
    /\ pc[c] = "vaf_ai_intent"
    /\ \E ok \in ExecOutcomes(locals[c].action) :
         LET loc == VafAiExecute(locals[c], ok)
         IN  /\ Send(c, AiIntentMsg(locals[c]), AfterExecute(loc, "vaf_tts", "vaf_result"),
                     TRUE)
             /\ locals' = IF client[c] = "open" THEN [locals EXCEPT ![c] = loc] ELSE locals
    /\ UNCHANGED << broadcast, call, monitor, services, client, message, saved,
                    tts_threads, turn >>

\* the fallback branch: process_intent(action, params, "en"), language = "en"
VafFallbackExecute(loc, ok) ==
    LET action_result == process_intent(loc.action, loc.params, "en", ok)
    IN  [loc EXCEPT !.action_result = action_result,
                    !.response_text = action_result.message,
                    !.language = "en",
                    !.faults = @ \cup ActionFault(action_result)]

VafFallbackIntent(c) ==
    /\ pc[c] = "vaf_fb_intent"
    /\ \E ok \in ExecOutcomes(locals[c].action) :
         LET loc == VafFallbackExecute(locals[c], ok)
         IN  /\ Send(c, IntentMsg(locals[c].action, locals[c].params, locals[c].confidence),
                     AfterExecute(loc, "vaf_tts", "vaf_result"), TRUE)
             /\ locals' = IF client[c] = "open" THEN [locals EXCEPT ![c] = loc] ELSE locals
    /\ UNCHANGED << broadcast, call, monitor, services, client, message, saved,
                    tts_threads, turn >>

VafTtsStart(c) == TtsStart(c, "vaf_tts", "vaf_tts_wait")

VafTtsDone(c) == TtsDone(c, "vaf_tts_wait", "vaf_result")

VafResult(c) ==
    /\ pc[c] = "vaf_result"
    /\ Send(c, ResultMsg(locals[c].action_result.success, locals[c].response_text,
                         locals[c].audio_base64, locals[c].language), "vaf_ready", TRUE)
    /\ IF client[c] = "open"
       THEN Save(c, locals[c].text, SavedIntent(locals[c]), locals[c].response_text,
                 locals[c].action_result.success)
       ELSE UNCHANGED saved
    /\ UNCHANGED << broadcast, call, monitor, services, client, message, locals,
                    tts_threads, turn >>

VafReady(c) ==
    /\ pc[c] = "vaf_ready"
    /\ Send(c, Out("ready"), "recv", TRUE)
    /\ UNCHANGED << broadcast, call, monitor, services, client, message, locals, saved,
                    tts_threads, turn >>

\* except Exception as e: the error result, sent outside the try block
VafExcept(c) ==
    /\ pc[c] = "vaf_except"
    /\ Send(c, [type |-> "result", success |-> FALSE,
                message |-> Txt("Error processing audio: {e}", <<>>), audio |-> ""],
            "recv", FALSE)
    /\ UNCHANGED << broadcast, call, monitor, services, client, message, locals, saved,
                    tts_threads, turn >>

-----------------------------------------------------------------------------
(* The audio_data and analyze_frame handlers *)

AdTranscription(c) ==
    /\ pc[c] = "ad_transcription"
    /\ Send(c, [type |-> "transcription", text |-> locals[c].text], "recv", FALSE)
    /\ UNCHANGED << broadcast, call, monitor, services, client, message, locals, saved,
                    tts_threads, turn >>

\* result = await vision.analyze_image(image_base64)
AfAnalyze(c) ==
    /\ pc[c] = "af_analyze"
    /\ \/ /\ services.vision
          /\ locals' = [locals EXCEPT ![c].response_text = Txt("vision: description", <<>>)]
          /\ GoTo(c, "af_tts")
       \/ /\ locals' = [locals EXCEPT ![c].faults =
                           @ \cup {IF services.vision THEN "vision failed"
                                   ELSE "vision unavailable"}]
          /\ GoTo(c, "af_failed")
    /\ UNCHANGED << broadcast, call, monitor, services, active_connections, client,
                    message, outbox, saved, tts_threads, turn, failed, late_sends,
                    result_attempts >>

AfTtsStart(c) == TtsStart(c, "af_tts", "af_tts_wait")

AfTtsDone(c) == TtsDone(c, "af_tts_wait", "af_result")

AfResult(c) ==
    /\ pc[c] = "af_result"
    /\ Send(c, [type |-> "vision_result", success |-> TRUE,
                description |-> locals[c].response_text, audio |-> locals[c].audio_base64],
            "recv", FALSE)
    /\ UNCHANGED << broadcast, call, monitor, services, client, message, locals, saved,
                    tts_threads, turn >>

AfFailed(c) ==
    /\ pc[c] = "af_failed"
    /\ Send(c, [type |-> "vision_result", success |-> FALSE, audio |-> ""], "recv", FALSE)
    /\ UNCHANGED << broadcast, call, monitor, services, client, message, locals, saved,
                    tts_threads, turn >>

-----------------------------------------------------------------------------
(* The specification *)

Next ==
    \/ \E c \in Conns : Connect(c)
    \/ \E c \in Conns : ClientDisconnect(c)
    \/ \E c \in Conns : SendConnected(c)
    \/ \E c \in Conns : ReceiveDisconnect(c)
    \/ \E c \in Conns : Receive(c)
    \/ \E c \in Conns : Pong(c)
    \/ \E c \in Conns : GreetingSpeak(c)
    \/ \E c \in Conns : GreetingResult(c)
    \/ \E c \in Conns : VcProcessing(c)
    \/ \E c \in Conns : VcVision(c)
    \/ \E c \in Conns : VisTtsStart(c)
    \/ \E c \in Conns : VisTtsDone(c)
    \/ \E c \in Conns : VisResult(c)
    \/ \E c \in Conns : VcRoute(c)
    \/ \E c \in Conns : FastTtsStart(c)
    \/ \E c \in Conns : FastTtsDone(c)
    \/ \E c \in Conns : FastTtsTimeout(c)
    \/ \E c \in Conns : FastResult(c)
    \/ \E c \in Conns : VcThink(c)
    \/ \E c \in Conns : VcAiIntent(c)
    \/ \E c \in Conns : VcFallbackIntent(c)
    \/ \E c \in Conns : SlowTtsStart(c)
    \/ \E c \in Conns : SlowTtsDone(c)
    \/ \E c \in Conns : SlowResult(c)
    \/ \E c \in Conns : SlowReady(c)
    \/ \E c \in Conns : AsTranscription(c)
    \/ \E c \in Conns : AsIntent(c)
    \/ \E c \in Conns : AsTtsStart(c)
    \/ \E c \in Conns : AsTtsDone(c)
    \/ \E c \in Conns : AsResult(c)
    \/ \E c \in Conns : AsReady(c)
    \/ \E c \in Conns : VafRecognize(c)
    \/ \E c \in Conns : VafNoText(c)
    \/ \E c \in Conns : VafTranscription(c)
    \/ \E c \in Conns : VafThink(c)
    \/ \E c \in Conns : VafAiIntent(c)
    \/ \E c \in Conns : VafFallbackIntent(c)
    \/ \E c \in Conns : VafTtsStart(c)
    \/ \E c \in Conns : VafTtsDone(c)
    \/ \E c \in Conns : VafResult(c)
    \/ \E c \in Conns : VafReady(c)
    \/ \E c \in Conns : VafExcept(c)
    \/ \E c \in Conns : AdTranscription(c)
    \/ \E c \in Conns : AfAnalyze(c)
    \/ \E c \in Conns : AfTtsStart(c)
    \/ \E c \in Conns : AfTtsDone(c)
    \/ \E c \in Conns : AfResult(c)
    \/ \E c \in Conns : AfFailed(c)
    \/ TtsThreadExit

Spec == Init /\ [][Next]_vars

-----------------------------------------------------------------------------
(* Two sessions on the one event loop *)

\* The tasks of all sessions are coroutines of one event loop: a task runs
\* from one await to the next, and a call that does not await keeps the loop
\* until it returns.  With a single session this cannot be seen, so the
\* specification below runs two sessions, on the messages that reach the
\* three collaborators' calls without an image or audio: ping, greeting and
\* a conversational voice_command.
Sessions == {1, 2}

LoopInbound ==
    { InMsg(t, <<>>, "en", FALSE, "") : t \in {"ping", "greeting"} }
    \cup { InMsg("voice_command", <<"h", "e", "l", "l", "o">>, "en", FALSE, "") }

\* the loop can run a step of session c's task: no other task is inside a
\* call that holds the loop
OnLoop(c) == \A d \in Sessions \ {c} : pc[d] # "greet_speak"

ReceiveLoop(c) == OnLoop(c) /\ ReceiveFrom(c, LoopInbound)

InitLoop ==
    /\ broadcast = NoBroadcast
    /\ call = NoCall
    /\ monitor = InitMonitor
    /\ services \in {s \in [ai : BOOLEAN, vision : BOOLEAN, tts : BOOLEAN, vosk : BOOLEAN] :
                        s.vision /\ s.vosk}
    /\ active_connections = <<>>
    /\ client = [c \in Sessions |-> "absent"]
    /\ pc = [c \in Sessions |-> "absent"]
    /\ message = [c \in Sessions |-> NoMsg]
    /\ locals = [c \in Sessions |-> InitLocals]
    /\ outbox = [c \in Sessions |-> <<>>]
    /\ saved = [c \in Sessions |-> <<>>]
    /\ tts_threads = {}
    /\ turn = [c \in Sessions |-> 0]
    /\ handling = [c \in Sessions |-> {}]
    /\ failed = [c \in Sessions |-> FALSE]
    /\ late_sends = [c \in Sessions |-> 0]
    /\ result_attempts = [c \in Sessions |-> 0]

NextLoop ==
    \/ \E c \in Sessions : OnLoop(c) /\ Connect(c)
    \/ \E c \in Sessions : OnLoop(c) /\ SendConnected(c)
    \/ \E c \in Sessions : ReceiveLoop(c)
    \/ \E c \in Sessions : OnLoop(c) /\ Pong(c)
    \/ \E c \in Sessions : OnLoop(c) /\ GreetingSpeak(c)
    \/ \E c \in Sessions : OnLoop(c) /\ GreetingResult(c)
    \/ \E c \in Sessions : OnLoop(c) /\ VcProcessing(c)
    \/ \E c \in Sessions : OnLoop(c) /\ VcRoute(c)
    \/ \E c \in Sessions : OnLoop(c) /\ VcThink(c)
    \/ \E c \in Sessions : OnLoop(c) /\ VcAiIntent(c)
    \/ \E c \in Sessions : OnLoop(c) /\ VcFallbackIntent(c)
    \/ \E c \in Sessions : OnLoop(c) /\ SlowTtsStart(c)
    \/ \E c \in Sessions : OnLoop(c) /\ SlowTtsDone(c)
    \/ \E c \in Sessions : OnLoop(c) /\ SlowResult(c)
    \/ \E c \in Sessions : OnLoop(c) /\ SlowReady(c)

SpecLoop == InitLoop /\ [][NextLoop]_vars

-----------------------------------------------------------------------------
(* The text functions, called on their own *)

\* what the clients say, in lower case
Phrases ==
    { <<"v", "o", "l", "u", "m", "e", " ", "u", "p">>, <<"o", "p", "e", "n", " ", "v", "o", "l", "u", "m", "e", " ", "u", "p">>, <<"c", "l", "o", "s", "e", " ", "m", "u", "t", "e">>, <<"o", "p", "e", "n", " ", "n", "o", "t", "e", "p", "a", "d">>, <<"c", "l", "o", "s", "e", " ", "c", "h", "r", "o", "m", "e">>,
      <<"w", "h", "a", "t", " ", "t", "i", "m", "e">>, <<"t", "a", "k", "e", " ", "a", " ", "s", "c", "r", "e", "e", "n", "s", "h", "o", "t">>, <<"u", "p", "d", "a", "t", "e">>, <<"h", "e", "l", "l", "o">>, <<"o", "p", "e", "n">>, <<"c", "l", "o", "s", "e">>,
      <<"s", "e", "a", "r", "c", "h">>, <<"s", "e", "a", "r", "c", "h", " ", "c", "a", "t", "s">>, <<"l", "o", "o", "k", " ", "u", "p", " ", "c", "a", "t", "s">>, <<"l", "a", "u", "n", "c", "h", " ", "c", "h", "r", "o", "m", "e">>, <<"t", "o", "d", "a", "y">>,
      <<"p", "l", "e", "a", "s", "e", " ", "o", "p", "e", "n", " ", "n", "o", "t", "e", "p", "a", "d">> }

UpperChar(ch) ==
    IF \E i \in DOMAIN LowerChars : LowerChars[i] = ch
    THEN UpperChars[CHOOSE i \in DOMAIN LowerChars : LowerChars[i] = ch]
    ELSE ch

\* a phrase as typed with the caps lock on
Shouted(s) == [i \in 1..Len(s) |-> UpperChar(s[i])]

\* a phrase with whitespace around it
Padded(s) == <<" ">> \o s \o <<" ", " ">>

\* the texts of the commands: each phrase as it is, in capitals, with
\* surrounding whitespace, and both
Texts ==
    UNION { {p, Shouted(p), Padded(p), Padded(Shouted(p))} : p \in Phrases }

\* The characters of a reply of the interpreter.  "r" stands for the member
\* "response": "hi" and "a" for the member "action": "time" of a JSON
\* object, with the comma that separates members; "x" is a character of
\* prose.
RawPrefixes == { <<>>, <<"x", " ">>, <<" ">> }

RawBodies ==
    { <<"{", "r", "}">>, <<"{", "r", "a", "}">>, <<"{", "a", "}">>, <<"{", "}">>,
      <<"{", " ", "r", " ", "}">>, <<"{", "x", "}">>, <<"{", "r">>, <<"r", "}">>,
      <<"x">> }

RawSuffixes ==
    { <<>>, <<" ", "x">>, <<"}">>, <<" ", "{", "a", "}">>, <<"{">>, <<" ">> }

RawReplies ==
    { pre \o body \o suf : pre \in RawPrefixes, body \in RawBodies, suf \in RawSuffixes }

\* re.search(r'\{.*\}', raw_response, re.DOTALL): the match starts at the
\* first "{" that has a "}" after it and, .* being greedy, ends at the last
\* "}" of the reply; <<>> when there is no match
json_match(raw_response) ==
    LET opens == {i \in 1..Len(raw_response) :
                    /\ raw_response[i] = "{"
                    /\ \E j \in (i + 1)..Len(raw_response) : raw_response[j] = "}"}
        closes == {j \in 1..Len(raw_response) : raw_response[j] = "}"}
        start == First(opens)
        end == CHOOSE j \in closes : \A k \in closes : k <= j
    IN  IF opens = {} THEN <<>> ELSE SubSeq(raw_response, start, end)

\* json.loads accepts the text: an object of members and whitespace
JsonDecodes(s) ==
    /\ Len(s) >= 2
    /\ s[1] = "{"
    /\ s[Len(s)] = "}"
    /\ \A i \in 2..(Len(s) - 1) : s[i] \in {"r", "a", " "}

\* json.loads(s) of a text it accepts: the members of the object
json_loads(s) ==
    [response |-> IF \E i \in 1..Len(s) : s[i] = "r" THEN <<<<"h", "i">>>> ELSE <<>>,
     action |-> IF \E i \in 1..Len(s) : s[i] = "a" THEN "time" ELSE ""]

\* _parse_response on the characters of the reply (_parse_response above is
\* the same function on replies already told apart as an object or as
\* text): the members of the decoded match, or the stripped reply with no
\* action.  response is the member's value, or the reply it defaults to.
_parse_response_text(raw_response) ==
    LET matched == json_match(raw_response)
    IN  IF matched # <<>> /\ JsonDecodes(matched)
        THEN LET parsed == json_loads(matched)
             IN  [response |-> IF parsed.response # <<>> THEN parsed.response[1]
                               ELSE raw_response,
                  action |-> parsed.action, params |-> NoParams]
        ELSE [response |-> Strip(raw_response), action |-> "", params |-> NoParams]

\* the fast-path test of the voice_command handler on a text
CallFastMatch ==
    /\ \E command_text \in Texts :
          call' = [fn |-> "fast_match", arg |-> command_text,
                   ret |-> FastMatch(command_text)]
    /\ UNCHANGED << broadcast, monitor, services, active_connections, client, pc,
                    message, locals, outbox, saved, tts_threads, turn, handling, failed,
                    late_sends, result_attempts >>

\* flexible_nlp.recognize_flexible(command_text)
CallRecognizeFlexible ==
    /\ \E command_text \in Texts :
          call' = [fn |-> "recognize_flexible", arg |-> command_text,
                   ret |-> recognize_flexible(command_text)]
    /\ UNCHANGED << broadcast, monitor, services, active_connections, client, pc,
                    message, locals, outbox, saved, tts_threads, turn, handling, failed,
                    late_sends, result_attempts >>

\* self._parse_response(raw_response) on the content of a reply
CallParseResponse ==
    /\ \E raw_response \in RawReplies :
          call' = [fn |-> "_parse_response", arg |-> raw_response,
                   ret |-> _parse_response_text(raw_response)]
    /\ UNCHANGED << broadcast, monitor, services, active_connections, client, pc,
                    message, locals, outbox, saved, tts_threads, turn, handling, failed,
                    late_sends, result_attempts >>

NextText ==
    \/ CallFastMatch
    \/ CallRecognizeFlexible
    \/ CallParseResponse

\* the functions do not read the services: every one of them initialised
InitText ==
    /\ Init
    /\ services = [ai |-> TRUE, vision |-> TRUE, tts |-> TRUE, vosk |-> TRUE]

SpecText == InitText /\ [][NextText]_vars

-----------------------------------------------------------------------------
(* SystemMonitor and ConnectionManager.broadcast *)

\* the thresholds and the cooldown set by SystemMonitor.__init__
CPU_THRESHOLD == 90

RAM_THRESHOLD == 95

BATTERY_THRESHOLD == 20

ALERT_COOLDOWN == 300

\* psutil.cpu_percent(interval=1) takes one second
CPU_INTERVAL == 1

\* time.sleep(60) at the end of an iteration
SLEEP_SECONDS == 60

\* the iterations of the monitor loop
MaxSamples == 2

\* the seconds an iteration takes beyond the sampling second and the sleep:
\* none, or as many as put the next check exactly ALERT_COOLDOWN seconds
\* after an alert recorded in this one, or one second later
Lags == {0, 239, 240}

\* what psutil reports: cpu and memory percent, and the battery (None on a
\* machine without one)
CpuSamples == {50, 95}

RamSamples == {60, 96}

NoBattery == [present |-> FALSE, percent |-> 0, power_plugged |-> FALSE]

BatterySamples ==
    { NoBattery,
      [present |-> TRUE, percent |-> 15, power_plugged |-> FALSE],
      [present |-> TRUE, percent |-> 15, power_plugged |-> TRUE] }

\* _should_alert: no alert of the type yet, or the last one more than
\* ALERT_COOLDOWN seconds ago
_should_alert(last_alerts, now, alert_type) ==
    \/ alert_type \notin DOMAIN last_alerts
    \/ now - last_alerts[alert_type] > ALERT_COOLDOWN

\* the metric of a category is past its threshold
OverThreshold(alert_type, cpu, ram, battery) ==
    CASE alert_type = "cpu" -> cpu > CPU_THRESHOLD
      [] alert_type = "ram" -> ram > RAM_THRESHOLD
      [] alert_type = "battery" ->
            /\ battery.present
            /\ battery.percent < BATTERY_THRESHOLD
            /\ ~battery.power_plugged

\* the categories whose condition of the if/elif chain holds
Due(m, now, cpu, ram, battery) ==
    {AlertTypes[k] : k \in {j \in DOMAIN AlertTypes :
                              /\ OverThreshold(AlertTypes[j], cpu, ram, battery)
                              /\ _should_alert(m.last_alerts, now, AlertTypes[j])}}

\* the if/elif chain: the first category of the chain whose condition holds,
\* "" when none does
PickAlert(m, now, cpu, ram, battery) ==
    LET k == First({j \in DOMAIN AlertTypes :
                      /\ OverThreshold(AlertTypes[j], cpu, ram, battery)
                      /\ _should_alert(m.last_alerts, now, AlertTypes[j])})
    IN  IF k = 0 THEN "" ELSE AlertTypes[k]

\* self.last_alerts[alert_type] = datetime.now()
RecordAlert(last_alerts, alert_type, now) ==
    [t \in DOMAIN last_alerts \cup {alert_type} |->
        IF t = alert_type THEN now ELSE last_alerts[t]]

\* SystemMonitor.start(): the thread begins _monitor_loop
MonitorStart ==
    /\ monitor.pc = "stopped"
    /\ monitor' = [monitor EXCEPT !.pc = "check"]
    /\ UNCHANGED << broadcast, call, services, active_connections, client, pc, message,
                    locals, outbox, saved, tts_threads, turn, handling, failed,
                    late_sends, result_attempts >>

\* one iteration up to `if alert_msg:`: the metrics are read, the chain
\* picks at most one alert, and the time of a picked alert is recorded
MonitorCheck ==
    /\ monitor.pc = "check"
    /\ monitor.samples < MaxSamples
    /\ \E cpu \in CpuSamples, ram \in RamSamples, battery \in BatterySamples :
         LET now == monitor.now + CPU_INTERVAL
             alert_type == PickAlert(monitor, now, cpu, ram, battery)
         IN  monitor' =
               IF alert_type = ""
               THEN [monitor EXCEPT !.pc = "sleep", !.now = now, !.samples = @ + 1,
                                    !.alert_type = "",
                                    !.due = Due(monitor, now, cpu, ram, battery)]
               ELSE [monitor EXCEPT !.pc = "alert", !.now = now, !.samples = @ + 1,
                                    !.alert_type = alert_type,
                                    !.due = Due(monitor, now, cpu, ram, battery),
                                    !.last_alerts = RecordAlert(@, alert_type, now),
                                    !.alerts = Append(@, [type |-> alert_type,
                                                          time |-> now,
                                                          broadcast |-> FALSE])]
    /\ UNCHANGED << broadcast, call, services, active_connections, client, pc, message,
                    locals, outbox, saved, tts_threads, turn, handling, failed,
                    late_sends, result_attempts >>

\* what `loop = asyncio.get_event_loop()` and `loop.is_running()` give in
\* the monitor thread: the running loop of the server, a loop that is not
\* running, or RuntimeError.  A thread that was given no loop, as the one
\* start() creates, gets the RuntimeError.
LoopLookups == {"running", "not running", "raises"}

\* tts.text_to_audio_base64(alert_msg), then _broadcast_alert when the audio
\* is not empty: manager.broadcast is scheduled on the loop only when the
\* loop was found running; the bare except drops the RuntimeError.  The next
\* broadcast is scheduled when the last one has ended.
MonitorAlert ==
    /\ monitor.pc = "alert"
    /\ broadcast.pc # "running"
    /\ \E audio_base64 \in TtsResults, lookup \in LoopLookups :
         IF audio_base64 # "" /\ lookup = "running"
         THEN /\ broadcast' = [pc |-> "running", i |-> 1,
                               listed |-> {active_connections[k] :
                                              k \in DOMAIN active_connections},
                               sent |-> <<>>]
              /\ monitor' = [monitor EXCEPT !.pc = "sleep",
                                            !.alerts[Len(monitor.alerts)].broadcast = TRUE]
         ELSE /\ monitor' = [monitor EXCEPT !.pc = "sleep"]
              /\ UNCHANGED broadcast
    /\ UNCHANGED << call, services, active_connections, client, pc, message, locals,
                    outbox, saved, tts_threads, turn, handling, failed, late_sends,
                    result_attempts >>

\* time.sleep(60), and whatever else the iteration took
MonitorSleep ==
    /\ monitor.pc = "sleep"
    /\ \E lag \in Lags :
          monitor' = [monitor EXCEPT !.pc = "check", !.now = @ + SLEEP_SECONDS + lag]
    /\ UNCHANGED << broadcast, call, services, active_connections, client, pc, message,
                    locals, outbox, saved, tts_threads, turn, handling, failed,
                    late_sends, result_attempts >>

\* one turn of `for connection in self.active_connections: await
\* connection.send_json(message)`: the iterator takes the element at its
\* position in the list as the list is now; the send raises when the client
\* is gone, and the exception ends the coroutine
BroadcastSend ==
    /\ broadcast.pc = "running"
    /\ broadcast.i <= Len(active_connections)
    /\ LET connection == active_connections[broadcast.i]
       IN  broadcast' =
             IF client[connection] = "open"
             THEN [broadcast EXCEPT !.i = @ + 1, !.sent = Append(@, connection)]
             ELSE [broadcast EXCEPT !.pc = "raised"]
    /\ UNCHANGED << call, monitor, services, active_connections, client, pc, message,
                    locals, outbox, saved, tts_threads, turn, handling, failed,
                    late_sends, result_attempts >>

\* the iterator is past the end of the list: the coroutine returns
BroadcastReturn ==
    /\ broadcast.pc = "running"
    /\ broadcast.i > Len(active_connections)
    /\ broadcast' = [broadcast EXCEPT !.pc = "done"]
    /\ UNCHANGED << call, monitor, services, active_connections, client, pc, message,
                    locals, outbox, saved, tts_threads, turn, handling, failed,
                    late_sends, result_attempts >>

\* the sessions of the connections, up to their receive, beside the monitor
InitMonitored ==
    /\ InitLoop
    /\ services.ai

NextMonitor ==
    \/ \E c \in Sessions : Connect(c)
    \/ \E c \in Sessions : ClientDisconnect(c)
    \/ \E c \in Sessions : SendConnected(c)
    \/ \E c \in Sessions : ReceiveDisconnect(c)
    \/ MonitorStart
    \/ MonitorCheck
    \/ MonitorAlert
    \/ MonitorSleep
    \/ BroadcastSend
    \/ BroadcastReturn

SpecMonitor == InitMonitored /\ [][NextMonitor]_vars
-----------------------------------------------------------------------------
(* The claims *)

\* the types of the messages of an outbox, in the order sent
Types(box) == [i \in 1..Len(box) |-> box[i].type]

Count(box, type) == Cardinality({i \in 1..Len(box) : box[i].type = type})

IsPrefix(s, t) == Len(s) <= Len(t) /\ \A i \in 1..Len(s) : s[i] = t[i]

\* the handler of a message has returned to the receive: every send of the
\* turn succeeded
TurnOver(c) == pc[c] = "recv" /\ turn[c] > 0

\* the messages that start a turn: a voice_command with text, an
\* audio_stream chunk with a final transcript, a voice_audio_file with audio
IsTurn(c) ==
    \/ message[c].type = "voice_command" /\ message[c].text # <<>>
    \/ message[c].type = "audio_stream" /\ locals[c].is_final
    \/ message[c].type = "voice_audio_file" /\ message[c].payload # ""

InFastPath(c) == message[c].type = "voice_command" /\ locals[c].path = "fast"

\* a voice_command with text, no image and no fast-path hit
IsSlowCommand(c) ==
    /\ message[c].type = "voice_command"
    /\ message[c].text # <<>>
    /\ ~message[c].image
    /\ ~FastMatch(message[c].text).hit

\* C1: every turn whose connection stays open ends with exactly one result
\* followed by exactly one ready, the last two messages of the turn.
C1_ResultThenReady ==
    \A c \in Conns :
        TurnOver(c) /\ IsTurn(c) =>
            /\ Count(outbox[c], "result") = 1
            /\ Count(outbox[c], "ready") = 1
            /\ Len(outbox[c]) >= 2
            /\ outbox[c][Len(outbox[c]) - 1].type = "result"
            /\ outbox[c][Len(outbox[c])].type = "ready"

\* C2: a fast-path turn sends exactly processing, result, ready, with no
\* intent message and without the interpreter or the fallback recognizer.
C2_FastPathSequence ==
    \A c \in Conns :
        InFastPath(c) =>
            /\ Count(outbox[c], "intent") = 0
            /\ pc[c] \notin {"ai_think", "ai_intent", "fb_intent"}
            /\ TurnOver(c) => Types(outbox[c]) = <<"processing", "result", "ready">>

\* C3: a voice_command with no image and no fast-path hit sends exactly
\* processing, intent, result, ready, in that order, on either branch.
C3_SlowPathSequence ==
    \A c \in Conns :
        IsSlowCommand(c) =>
            /\ IsPrefix(Types(outbox[c]), <<"processing", "intent", "result", "ready">>)
            /\ TurnOver(c) =>
                  Types(outbox[c]) = <<"processing", "intent", "result", "ready">>

C3_Witness ==
    \E c \in Conns :
        /\ IsSlowCommand(c) /\ TurnOver(c) /\ services.ai
        /\ locals[c].path = "ai"
        /\ Len(outbox[c]) > 1 /\ outbox[c][2].type = "intent"
        /\ outbox[c][2].intent = "conversation"

\* C4: in the messages of a turn no intent follows a result, nothing follows
\* ready, every ready has a result before it, and no transcription follows
\* an intent, a result or ready.
C4_Ordering ==
    \A c \in Conns :
        \A j \in 1..Len(outbox[c]) :
            /\ outbox[c][j].type = "intent" =>
                  \A i \in 1..(j - 1) : outbox[c][i].type \notin {"result", "ready"}
            /\ outbox[c][j].type = "result" =>
                  \A i \in 1..(j - 1) : outbox[c][i].type # "ready"
            /\ outbox[c][j].type = "ready" =>
                  \E i \in 1..(j - 1) : outbox[c][i].type = "result"
            /\ outbox[c][j].type = "transcription" =>
                  \A i \in 1..(j - 1) : outbox[c][i].type \notin {"intent", "result", "ready"}

C4_Witness ==
    \E c \in Conns :
        /\ message[c].type = "audio_stream" /\ TurnOver(c)
        /\ Types(outbox[c]) = <<"transcription", "intent", "result", "ready">>

\* C5: no turn sends or attempts to send two result messages.
C5_OneResult == \A c \in Conns : result_attempts[c] <= 1

\* C6: a session handles one message at a time: the only message in
\* handling is the last one received, and none is once the task is back at
\* the receive.
C6_Sequential ==
    \A c \in Conns :
        /\ handling[c] \subseteq {turn[c]}
        /\ pc[c] = "recv" => handling[c] = {}

C6_Witness ==
    \E c \in Conns : turn[c] = 2 /\ handling[c] = {2} /\ pc[c] = "slow_tts_wait"

\* C7: a synthesis call runs only in its own turn and before that turn's
\* result: none is left running once the result has been sent, so none of an
\* earlier turn runs during a later turn, and no two calls of one session run
\* at the same time.
C7_SynthesisCancelled ==
    /\ \A th \in tts_threads :
          /\ th.turn = turn[th.conn]
          /\ Count(outbox[th.conn], "result") = 0
    /\ \A th1, th2 \in tts_threads : th1.conn = th2.conn => th1 = th2

\* C8: once a receive or a send found the client gone, the session task
\* attempts no further send, and when it has left the loop the connection is
\* off the active list.
C8_SilentAbort ==
    \A c \in Conns :
        failed[c] =>
            /\ late_sends[c] = 0
            /\ pc[c] = "closed" => ~InList(active_connections, c)

C10_TimeoutResult ==
    \A c \in Conns :
        "synthesis timeout" \in locals[c].faults /\ TurnOver(c) =>
            /\ Len(outbox[c]) = 2
            /\ outbox[c][2].type = "result"
            /\ outbox[c][2].audio = ""
            /\ outbox[c][2].success = locals[c].action_result.success

C10_Witness ==
    \E c \in Conns :
        /\ "synthesis timeout" \in locals[c].faults /\ TurnOver(c)
        /\ ~locals[c].action_result.success
        /\ outbox[c][2].type = "result" /\ ~outbox[c][2].success

\* the result message of the turn, when one was sent
ResultsSent(c) == {i \in 1..Len(outbox[c]) : outbox[c][i].type = "result"}

\* C11: a turn whose dispatched action failed still sends result and ready,
\* and its result carries success=false and the failure message of the
\* dispatch as its text.
C11_FailureSurfaced ==
    \A c \in Conns :
        "action failed" \in locals[c].faults /\ TurnOver(c) =>
            /\ Count(outbox[c], "ready") = 1
            /\ \E i \in ResultsSent(c) :
                  /\ ~outbox[c][i].success
                  /\ outbox[c][i].message = locals[c].action_result.message

\* action names outside the dispatch table, among them the ones the
\* fallback recognizer and the interpreter can produce
UnlistedActions == {"unknown", "open", "close", "search", "switch_tab", "dance"}

ActionNames == DispatchTable \cup UnlistedActions

\* parameter values: dicts, and a value that is not a mapping
ParamValues ==
    {NoParams, NotADict, Params({<<"app_name", <<"n", "o", "t", "e", "p", "a", "d">>>>}),
     Params({<<"query", <<"c", "a", "t", "s">>>>})}

\* C12: for every action name, parameter value, language and executor
\* outcome process_intent returns a value made of success and a message,
\* with success=false after an executor failure or an internal error; and a
\* turn whose action failed is never the one that ends the session.
C12_NeverPropagates ==
    /\ \A intent \in ActionNames, parameters \in ParamValues,
          language \in Languages, ok \in BOOLEAN :
          LET r == process_intent(intent, parameters, language, ok)
          IN  /\ DOMAIN r = {"success", "message"}
              /\ r.success \in BOOLEAN
              /\ r.message # NoText
              /\ CallsExecutor(intent) /\ ~ok => ~r.success
              /\ r = IntentError(language) => ~r.success
    /\ \A c \in Conns :
          /\ DOMAIN locals[c].action_result = {"success", "message"}
          /\ "action failed" \in locals[c].faults /\ pc[c] = "closed" => failed[c]

C12_Witness ==
    \E c \in Conns :
        /\ TurnOver(c)
        /\ locals[c].action = "open_app" /\ ~locals[c].params.mapping
        /\ locals[c].action_result = IntentError(locals[c].language)
        /\ Count(outbox[c], "result") = 1

\* the messages of the turn that carry synthesized audio
AudioSent(c) ==
    {i \in 1..Len(outbox[c]) : outbox[c][i].type \in {"result", "vision_result"}}

\* C13: text_to_audio_base64 returns a string on every call: "" whenever
\* the engine is not initialized and "" when the generation fails; with no
\* engine every message of every turn carries audio "", and a synthesis
\* failure never ends the session.
C13_SynthesisGate ==
    /\ \A g \in GenerationOutcomes :
          /\ text_to_audio_base64(FALSE, g) = ""
          /\ text_to_audio_base64(TRUE, g) \in {"", "audio"}
    /\ text_to_audio_base64(TRUE, "error") = ""
    /\ \A c \in Conns :
          /\ ~services.tts =>
                /\ locals[c].audio_base64 = ""
                /\ \A i \in AudioSent(c) : outbox[c][i].audio = ""
          /\ pc[c] = "closed" => failed[c]

\* a voice_command after the first message of a session without an engine
\* has called the synthesizer and sent "" as its audio
C13_Witness ==
    \E c \in Conns :
        /\ ~services.tts /\ turn[c] = 2 /\ TurnOver(c)
        /\ message[c].type = "voice_command"
        /\ "synthesizer unavailable" \in locals[c].faults
        /\ locals[c].response_text # NoText
        /\ \E i \in AudioSent(c) : outbox[c][i].audio = ""

\* session c waits for a call of the interpreter or of the synthesizer
InCollaboratorCall(c) ==
    pc[c] \in {"greet_speak", "ai_think", "slow_tts_wait"}

\* C14: while a session waits for a call of the interpreter, the vision
\* model or the synthesizer, a message that arrived on another open
\* connection can be received.
C14_CallsOffloaded ==
    \A c \in DOMAIN pc, d \in DOMAIN pc :
        /\ c # d /\ InCollaboratorCall(c)
        /\ pc[d] = "recv" /\ client[d] = "open" /\ turn[d] < MaxTurns
        => ENABLED ReceiveLoop(d)

\* a voice_command with text and an image, the vision service available
IsVisionCommand(c) ==
    /\ message[c].type = "voice_command"
    /\ message[c].text # <<>>
    /\ message[c].image
    /\ services.vision

\* C15: a voice_command with an image, the vision service available, takes
\* the vision branch only: no fast-path match, no intent message and no
\* action dispatch, and it ends with a single result, whether the vision
\* call succeeds or fails.
C15_VisionBranchOnly ==
    \A c \in Conns :
        IsVisionCommand(c) =>
            /\ locals[c].path \in {"", "vision"}
            /\ Count(outbox[c], "intent") = 0
            /\ locals[c].action_result = NoResult
            /\ TurnOver(c) => Count(outbox[c], "result") = 1

\* C16: an audio_stream message sends a transcription exactly when its
\* chunk gave a non-empty transcript; a final transcript is resolved by the
\* fallback recognizer only and followed by intent, result, ready in that
\* order; a partial or empty one is followed by nothing.
C16_AudioStream ==
    \A c \in Conns :
        message[c].type = "audio_stream" =>
            /\ Count(outbox[c], "transcription") > 0 => locals[c].text # <<>>
            /\ TurnOver(c) =>
                  Count(outbox[c], "transcription") = IF locals[c].text # <<>> THEN 1 ELSE 0
            /\ locals[c].path \in {"", "fallback"}
            /\ pc[c] \notin {"vc_route", "ai_think", "ai_intent", "vaf_think", "vaf_ai_intent"}
            /\ \A i \in 1..Len(outbox[c]) :
                  outbox[c][i].type = "intent" =>
                      outbox[c][i].intent = recognize_flexible(locals[c].text).intent
            /\ IF locals[c].is_final
               THEN /\ IsPrefix(Types(outbox[c]),
                                <<"transcription", "intent", "result", "ready">>)
                    /\ TurnOver(c) =>
                          Types(outbox[c]) = <<"transcription", "intent", "result", "ready">>
               ELSE IsPrefix(Types(outbox[c]), <<"transcription">>)

\* a final transcript resolved while the interpreter is available
C16_Witness ==
    \E c \in Conns :
        /\ message[c].type = "audio_stream" /\ locals[c].is_final /\ TurnOver(c)
        /\ services.ai
        /\ Types(outbox[c]) = <<"transcription", "intent", "result", "ready">>
        /\ outbox[c][2].intent = "time"

\* what the final branch of audio_stream does with the transcript `text`:
\* the intent message it sends and the locals after process_intent
FinalChunkIntent(text) ==
    LET r == recognize_flexible(text)
    IN  IntentMsg(r.intent, r.parameters, r.confidence)

FinalChunkLocals(text, ok) ==
    LET r == recognize_flexible(text)
    IN  FallbackExecute([InitLocals EXCEPT !.text = text, !.intent = r.intent,
                                           !.parameters = r.parameters,
                                           !.confidence = r.confidence], "en", ok)

\* C17: a voice_audio_file turn whose recognition gave text T does what an
\* audio_stream turn with the final transcript T does: the fallback
\* recognizer resolves the intent also when the interpreter is available,
\* the same action is dispatched, and the messages are transcription,
\* intent, result, ready.
C17_FileAsFinalChunk ==
    \A c \in Conns :
        message[c].type = "voice_audio_file" /\ locals[c].text # <<>> =>
            /\ locals[c].path \in {"", "fallback"}
            /\ \A i \in 1..Len(outbox[c]) :
                  /\ outbox[c][i].type = "intent" =>
                        outbox[c][i] = FinalChunkIntent(locals[c].text)
                  /\ outbox[c][i].type = "result" =>
                        \E ok \in ExecOutcomes(recognize_flexible(locals[c].text).intent) :
                           LET loc == FinalChunkLocals(locals[c].text, ok)
                           IN  /\ outbox[c][i].success = loc.action_result.success
                               /\ outbox[c][i].message = loc.response_text
            /\ TurnOver(c) =>
                  Types(outbox[c]) = <<"transcription", "intent", "result", "ready">>

\* the action a turn resolved: the fallback branches of voice_command and
\* audio_stream keep it in `intent`, the other branches in `action`
ResolvedAction(c) ==
    IF locals[c].path = "fallback" /\ message[c].type \in {"voice_command", "audio_stream"}
    THEN locals[c].intent
    ELSE locals[c].action

\* the language process_intent is called with
DispatchLanguage(c) ==
    IF message[c].type = "audio_stream" THEN "en" ELSE locals[c].language

\* the session is about to call the synthesizer, or waits for it
Synthesizing(c) ==
    pc[c] \in {"fast_tts", "fast_tts_wait", "slow_tts", "slow_tts_wait", "as_tts",
               "as_tts_wait", "vaf_tts", "vaf_tts_wait"}

\* C18: in a turn whose resolved action is time or date, the text given to
\* the synthesizer and the message of the result are the message computed by
\* process_intent, never the empty fast-path reply or the interpreter's own.
C18_TimeDateComputed ==
    \A c \in Conns :
        locals[c].path \in {"fast", "ai", "fallback"}
        /\ ResolvedAction(c) \in {"time", "date"} =>
            LET computed == process_intent(ResolvedAction(c), NoParams,
                                           DispatchLanguage(c), TRUE).message
            IN  /\ computed # NoText
                /\ Synthesizing(c) => locals[c].response_text = computed
                /\ pc[c] \notin {"fast_result", "slow_result", "as_result", "vaf_result"}
                      \/ locals[c].response_text = computed
                /\ \A i \in ResultsSent(c) : outbox[c][i].message = computed

\* the interpreter resolved the action time and replied in its own words;
\* the result carries the computed time
C18_Witness ==
    \E c \in Conns :
        /\ locals[c].path = "ai" /\ locals[c].action = "time" /\ TurnOver(c)
        /\ message[c].type = "voice_command"
        /\ \E i \in ResultsSent(c) :
              outbox[c][i].message = Txt("The current time is {current_time}", <<>>)

\* the templated reply for an action that is not understood
DontUnderstand ==
    Txt("I'm sorry, I don't understand that command. Say 'help' for available commands.",
        <<>>)

\* C19: in every turn that dispatches an action name outside the dispatch
\* table, process_intent answers with success=false and the templated
\* "I don't understand" message.
C19_UnknownAction ==
    \A c \in Conns :
        /\ locals[c].action_result # NoResult
        /\ ResolvedAction(c) \notin DispatchTable \cup {""}
        /\ locals[c].params.mapping
        => locals[c].action_result = [success |-> FALSE, message |-> DontUnderstand]

\* what the client receives for audio in which the recognizer found no
\* speech: nothing for an audio_stream chunk, the "didn't catch that" result
\* for a voice_audio_file
SilenceReply(type) ==
    IF type = "audio_stream" THEN <<>>
    ELSE << [type |-> "result", success |-> FALSE,
             message |-> Txt("I didn't catch that. Please try again.", <<>>),
             audio |-> ""] >>

\* the message carried audio for the recognizer
CarriesAudio(c) ==
    \/ message[c].type = "audio_stream" /\ message[c].payload = "chunk"
    \/ message[c].type = "voice_audio_file" /\ message[c].payload = "wav"

\* C20: without an initialized engine process_chunk returns empty for every
\* chunk, and what the client receives for an audio_stream or
\* voice_audio_file message then differs from what it receives for audio
\* without speech.
C20_UnavailableNotSilence ==
    /\ ~services.vosk => ChunkResults = {[text |-> <<>>, is_final |-> FALSE]}
    /\ \A c \in Conns :
          ~services.vosk /\ CarriesAudio(c) /\ TurnOver(c) =>
              outbox[c] # SilenceReply(message[c].type)

\* the triggers of the fast-path table that are substrings of a text
TriggersIn(command_lower) ==
    {i \in 1..Len(fast_patterns) : Contains(fast_patterns[i].pattern, command_lower)}

\* C21: the fast-path matcher decides on the lower-cased, trimmed text: the
\* first trigger of the table that is a substring gives the action; the
\* "open " and "close " prefixes count only when no trigger is a substring
\* ("open volume up" gives volume_up); texts that differ only in casing or
\* surrounding whitespace get the same result.
C21_FastPathMatcher ==
    call.fn = "fast_match" =>
        LET low == Strip(Lower(call.arg))
            hits == TriggersIn(low)
        IN  /\ hits # {} =>
                  /\ call.ret.hit
                  /\ call.ret.action = fast_patterns[First(hits)].action
                  /\ call.ret.action \notin {"open_app", "close_app"}
            /\ call.ret.action = "open_app" => hits = {} /\ StartsWith(low, <<"o", "p", "e", "n", " ">>)
            /\ call.ret.action = "close_app" => hits = {} /\ StartsWith(low, <<"c", "l", "o", "s", "e", " ">>)
            /\ low = <<"o", "p", "e", "n", " ", "v", "o", "l", "u", "m", "e", " ", "u", "p">> => call.ret.action = "volume_up"
            /\ low = <<"o", "p", "e", "n", " ", "n", "o", "t", "e", "p", "a", "d">> =>
                  call.ret.action = "open_app" /\ Get(call.ret.params, "app_name", <<>>) = <<"n", "o", "t", "e", "p", "a", "d">>
            /\ ~call.ret.hit =>
                  hits = {} /\ ~StartsWith(low, <<"o", "p", "e", "n", " ">>) /\ ~StartsWith(low, <<"c", "l", "o", "s", "e", " ">>)
            /\ \A t \in Texts : Strip(Lower(t)) = low => FastMatch(t) = call.ret

C21_Witness ==
    /\ call.fn = "fast_match"
    /\ call.arg = Padded(Shouted(<<"o", "p", "e", "n", " ", "v", "o", "l", "u", "m", "e", " ", "u", "p">>))
    /\ call.ret.action = "volume_up"

\* some keyword of the action-keyword table is a substring of the text
HasActionKeyword(text_clean) ==
    \E i \in 1..Len(action_keywords) : Contains(action_keywords[i].keyword, text_clean)

\* C22: recognize_flexible answers "unknown" with confidence 0.0 exactly
\* when no keyword of the action-keyword table is a substring of the cleaned
\* text; when one is, the intent is not "unknown" and the confidence is 0.9.
C22_UnknownIffNoKeyword ==
    call.fn = "recognize_flexible" =>
        IF HasActionKeyword(clean_text(call.arg))
        THEN call.ret.intent # "unknown" /\ call.ret.confidence = 90
        ELSE call.ret.intent = "unknown" /\ call.ret.confidence = 0

\* "look up" is a search keyword, and removing the filler "ok" leaves
\* "lo up cats", in which no keyword is left
C22_Witness ==
    /\ call.fn = "recognize_flexible"
    /\ call.arg = Shouted(<<"l", "o", "o", "k", " ", "u", "p", " ", "c", "a", "t", "s">>)
    /\ clean_text(call.arg) = <<"l", "o", " ", "u", "p", " ", "c", "a", "t", "s">>
    /\ call.ret.intent = "unknown"

\* the end of the first balanced {...} region of a text: the position of
\* the "}" that closes the first "{", 0 when that brace is never closed
RECURSIVE BalancedEnd(_, _, _)
BalancedEnd(s, i, depth) ==
    IF i > Len(s) THEN 0
    ELSE IF s[i] = "{" THEN BalancedEnd(s, i + 1, depth + 1)
    ELSE IF s[i] = "}"
         THEN (IF depth = 1 THEN i ELSE BalancedEnd(s, i + 1, depth - 1))
    ELSE BalancedEnd(s, i + 1, depth)

\* the first balanced {...} region of a reply, <<>> when there is none
FirstBalanced(raw_response) ==
    LET opens == {i \in 1..Len(raw_response) :
                    raw_response[i] = "{" /\ BalancedEnd(raw_response, i, 0) > 0}
        start == First(opens)
    IN  IF opens = {} THEN <<>>
        ELSE SubSeq(raw_response, start, BalancedEnd(raw_response, start, 0))

\* C23: _parse_response decodes the first balanced {...} region of the
\* reply, whatever text is before and after it, trailing braces or a second
\* object included; without such a region, or when it does not decode, the
\* result is the stripped reply as the response, with no action and empty
\* params.
C23_FirstBalancedRegion ==
    call.fn = "_parse_response" =>
        LET region == FirstBalanced(call.arg)
        IN  IF region # <<>> /\ JsonDecodes(region)
            THEN /\ call.ret.action = json_loads(region).action
                 /\ json_loads(region).response # <<>> =>
                       call.ret.response = json_loads(region).response[1]
            ELSE call.ret = [response |-> Strip(call.arg), action |-> "",
                             params |-> NoParams]

\* C27: every intent other than "unknown" that recognize_flexible returns
\* has a branch of its own in process_intent: none gets the answer of the
\* final else, as "open", "close" and "search" would.
C27_RecognizedIsHandled ==
    call.fn = "recognize_flexible" /\ call.ret.intent # "unknown" =>
        /\ call.ret.intent \in DispatchTable
        /\ \A ok \in ExecOutcomes(call.ret.intent) :
              process_intent(call.ret.intent, call.ret.parameters, "en", ok).message
                  # Txt(get_response_template(call.ret.intent), <<>>)

\* C25: in every turn that saves to the command history, the success saved
\* is the success of the result message sent in that turn.
C25_SavedSuccess ==
    \A c \in Conns :
        \A i \in 1..Len(saved[c]) :
            /\ \E j \in 1..Len(outbox[c]) : outbox[c][j].type = "result"
            /\ \A j \in 1..Len(outbox[c]) :
                  outbox[c][j].type = "result" => outbox[c][j].success = saved[c][i].success

\* the intents announced by the intent messages of a turn
AnnouncedIntents(c) ==
    {outbox[c][j].intent : j \in {k \in 1..Len(outbox[c]) : outbox[c][k].type = "intent"}}

\* C26: a voice_command turn that went through the interpreter or the
\* fallback recognizer saves the intent its intent message announced; on the
\* fallback branch that is the intent recognize_flexible returned, not a
\* value left by the scan of the fast-path table.
C26_SavedIntent ==
    \A c \in Conns :
        message[c].type = "voice_command" /\ locals[c].path \in {"ai", "fallback"} =>
            \A i \in 1..Len(saved[c]) :
                /\ AnnouncedIntents(c) = {saved[c][i].intent}
                /\ locals[c].path = "fallback" =>
                      saved[c][i].intent = recognize_flexible(message[c].text).intent

\* C24: two alerts of one category are more than ALERT_COOLDOWN seconds
\* apart, and alerts of different categories do not delay each other: every
\* category whose alert a check finds due is alerted in that iteration.
C24_CooldownPerCategory ==
    /\ \A i, j \in DOMAIN monitor.alerts :
          i < j /\ monitor.alerts[i].type = monitor.alerts[j].type =>
              monitor.alerts[j].time - monitor.alerts[i].time > ALERT_COOLDOWN
    /\ monitor.pc \in {"alert", "sleep"} =>
          \A t \in monitor.due :
              \E i \in DOMAIN monitor.alerts :
                  monitor.alerts[i].type = t /\ monitor.alerts[i].time = monitor.now

\* how many times a broadcast sent its message to a connection
Deliveries(c) == Cardinality({k \in DOMAIN broadcast.sent : broadcast.sent[k] = c})

\* C28: a broadcast delivers exactly once to every connection that is on
\* the active list, with its client there, from the beginning of the
\* broadcast to its end, whatever the other connections do meanwhile.
C28_BroadcastReachesAll ==
    /\ \A c \in DOMAIN client : Deliveries(c) <= 1
    /\ broadcast.pc \in {"done", "raised"} =>
          \A c \in broadcast.listed :
              InList(active_connections, c) /\ client[c] = "open" => Deliveries(c) = 1

\* C30: every alert whose time the monitor recorded has had its result
\* message handed to manager.broadcast by the time the iteration goes to
\* sleep, empty audio or not.
C30_RecordedIsBroadcast ==
    \A i \in DOMAIN monitor.alerts :
        i < Len(monitor.alerts) \/ monitor.pc # "alert" => monitor.alerts[i].broadcast

\* how many times a connection is on the active list
Listed(c) ==
    Cardinality({k \in DOMAIN active_connections : active_connections[k] = c})

\* C29: a connection is on the active list exactly once from its accept to
\* the end of its session task and not at all before or after, however the
\* session ends; so the one removal the ending session makes finds the
\* connection on the list, and leaves none behind.
C29_ListedWhileServed ==
    \A c \in DOMAIN pc :
        /\ pc[c] \notin {"absent", "closed"} => Listed(c) = 1
        /\ pc[c] \in {"absent", "closed"} => Listed(c) = 0

\* a session ended by an exception of a send inside a handler, after two
\* messages
C29_Witness ==
    \E c \in DOMAIN pc :
        /\ pc[c] = "closed" /\ failed[c] /\ turn[c] = 2
        /\ message[c].type = "voice_command"
        /\ Listed(c) = 0

====
